---- MODULE Spec2Model ----
(***************************************************************************)
(* A model of the retrieval core of the Spiritual-chatbot backend:         *)
(*   - TreeParser.build_tree (services/tree_parser.py), the link-graph     *)
(*     builder, as a step machine over an explicit recursion stack;        *)
(*   - RAGEngine._rerank_results / _assemble_context                       *)
(*     (services/rag_engine.py);                                           *)
(*   - LLMService.generate / generate_stream (services/llm_service.py)     *)
(*     and the chat endpoint (api/chat.py);                                *)
(*   - ChunkingService.chunk_note (services/chunking_service.py);          *)
(*   - the tree cache of the navigation endpoints (api/tree.py);           *)
(*   - the request handlers as coroutines of one event loop                *)
(*     (api/search.py, api/chat.py).                                       *)
(*                                                                         *)
(* Text is modelled as a sequence of tokens.  In names and link texts a    *)
(* token is one letter ("a", "A", "b", "B") or the eight-character file    *)
(* name prefix "Notes - " (token "N"), its lowercase form "notes - "       *)
(* (token "n") or its form in capitals "NOTES - " (token "M").  In the     *)
(* texts the chunker, the citation parser and the link extractors scan, a  *)
(* token is one character.                                                 *)
(***************************************************************************)
EXTENDS Integers, Sequences, FiniteSets, TLC

VARIABLES
    \* ---- link-graph builder (tree_parser.py) ----
    notes,              \* all_notes: the parsed vault, a sequence of Note records
    notes_by_id,        \* TreeParser.notes_by_id      (insertion-ordered dict)
    notes_by_title,     \* TreeParser.notes_by_title   (insertion-ordered dict)
    notes_by_filepath,  \* TreeParser.notes_by_filepath (insertion-ordered dict)
    nodes,              \* the TreeNode objects allocated by the running build_tree
    visited,            \* build_tree's visited set of note ids
    stack,              \* the activation records of _build_tree_recursive
    pc,                 \* "idle" | "building" | "done"
    navigation,         \* the last TreeParser.get_navigation_context call
    \* ---- retrieval pipeline (rag_engine.py) ----
    query,              \* the user query, a sequence of words
    results,            \* what vector_db.query returned, one record per hit
    context_limit,      \* RAGEngine.context_limit
    ranked,             \* ranked_chunks, the list _rerank_results returns
    context_parts,      \* _assemble_context's list of formatted blocks
    context,            \* formatted_context, as the tokens split() gives
    citations,          \* the Citation list _assemble_context returns
    rpc,                \* the stage retrieve_context and its caller have reached
    calls,              \* the stages this query has run so far, oldest first
    prompt,             \* the prompt construct_prompt returned
    history,            \* the conversation history the caller passes on
    \* ---- generation backends and the chat endpoint ----
    providers,          \* LLMService.providers: the registered names, in order
    llm_call,           \* the last LLMService.generate / generate_stream call
    stream,             \* the generator LLMService.generate_stream returned
    http,               \* the response of the last POST /api/chat
    sse,                \* the last run of the POST /api/chat/stream generator
    \* ---- chunker (chunking_service.py) ----
    cnote,              \* the Note handed to chunk_note
    chunker,            \* the ChunkingService: its three sizes, in words
    candidates,         \* _semantic_chunk's list "chunks" before the overlap pass
    note_chunks,        \* the list of Chunk objects chunk_note returned
    cpc,                \* "idle" | "single" | "semantic": the path chunk_note took
    \* ---- tree cache of the navigation endpoints (api/tree.py) ----
    vault_notes,        \* the notes parse_vault returns for the vault on disk
    trees_cache,        \* _trees_cache, an insertion-ordered dict
    init_runs,          \* how many times initialize_trees has run
    found_roots,        \* root_notes of the last initialize_trees run
    nav,                \* the last request served by a /api/tree endpoint
    \* ---- the event loop of the server process ----
    tasks,              \* the request coroutines, one record per request
    running,            \* the coroutine the loop's thread is executing, 0 if none
    \* ---- text scanners (rag_engine.py, tree_parser.py) ----
    response,           \* the answer text handed to parse_citations
    unique_citations,   \* what parse_citations returned
    markdown,           \* the text handed to a wiki-link extractor
    tree_links,         \* what TreeParser.extract_wiki_links returned
    note_links,         \* what ObsidianParser._extract_links returned
    tpc                 \* "idle" | "parsed" | "extracted"

treeVars == <<notes, notes_by_id, notes_by_title, notes_by_filepath,
              nodes, visited, stack, pc, navigation>>

ragVars == <<query, results, context_limit, ranked, context_parts, context,
             citations, rpc, calls, prompt, history>>

chatVars == <<providers, llm_call, stream, http, sse>>

chunkVars == <<cnote, chunker, candidates, note_chunks, cpc>>

navVars == <<vault_notes, trees_cache, init_runs, found_roots, nav>>

loopVars == <<tasks, running>>

textVars == <<response, unique_citations, markdown, tree_links, note_links,
              tpc>>

vars == <<treeVars, ragVars, chatVars, chunkVars, navVars, loopVars,
          textVars>>

-----------------------------------------------------------------------------
(* Bounds of the model *)

\* number of [[wiki links]] in the whole vault
MaxLinks == 3

\* deepest nesting of _build_tree_recursive the model follows
MaxDepth == 5

-----------------------------------------------------------------------------
(* Text helpers *)

\* str.lower(), token by token
LowerTok(t) ==
    CASE t = "A" -> "a"
      [] t = "B" -> "b"
      [] t = "N" -> "n"
      [] t = "M" -> "n"
      [] OTHER   -> t

Lower(s) == [i \in 1..Len(s) |-> LowerTok(s[i])]

\* Python's "x in y" on strings: x occurs in y as a contiguous run
Contains(y, x) ==
    \E k \in 0..(Len(y) - Len(x)) :
        \A i \in 1..Len(x) : y[k + i] = x[i]

\* all sequences over S of length 0..n
SeqUpTo(S, n) == UNION {[1..k -> S] : k \in 0..n}

IsSpace(c) == c \in {" ", "\n"}

RECURSIVE StrLStrip(_)
StrLStrip(s) ==
    IF s = <<>> THEN <<>>
    ELSE IF IsSpace(Head(s)) THEN StrLStrip(Tail(s))
    ELSE s

RECURSIVE StrRStrip(_)
StrRStrip(s) ==
    IF s = <<>> THEN <<>>
    ELSE IF IsSpace(s[Len(s)]) THEN StrRStrip(SubSeq(s, 1, Len(s) - 1))
    ELSE s

\* str.strip()
StrStrip(s) == StrRStrip(StrLStrip(s))

\* length of the run of characters at the head of s that are not in stops
RECURSIVE RunOutside(_, _)
RunOutside(s, stops) ==
    IF s = <<>> \/ Head(s) \in stops THEN 0
    ELSE 1 + RunOutside(Tail(s), stops)

-----------------------------------------------------------------------------
(* Insertion-ordered dictionaries, as sequences of [k, v] entries *)

DictHas(d, k) == \E i \in 1..Len(d) : d[i].k = k

DictGet(d, k) == d[CHOOSE i \in 1..Len(d) : d[i].k = k].v

\* d[k] = v: an existing key keeps its position and takes the new value
DictPut(d, k, v) ==
    IF DictHas(d, k)
    THEN [i \in 1..Len(d) |-> IF d[i].k = k THEN [k |-> k, v |-> v] ELSE d[i]]
    ELSE Append(d, [k |-> k, v |-> v])

\* {key(note): note for note in all_notes}; values are indices into all_notes
RECURSIVE DictOf(_, _, _)
DictOf(all_notes, field, n) ==
    IF n = 0 THEN <<>>
    ELSE DictPut(DictOf(all_notes, field, n - 1), all_notes[n][field], n)

-----------------------------------------------------------------------------
(* Notes as obsidian_parser.parse_note makes them *)

Cats == {"c1", "c2"}

\* _slugify lowercases; _generate_id joins the slugs of category and title
GenerateId(category, title) == <<category, Lower(title)>>

\* title = file stem without a leading "Notes - " (that exact casing only)
TitleOfStem(stem) ==
    IF Len(stem) > 0 /\ stem[1] = "N" THEN Tail(stem) ELSE stem

\* the text of a note that holds the given references, in order: a word of
\* plain text and one [[...]] marker for each
RECURSIVE NoteText(_)
NoteText(link_texts) ==
    IF link_texts = <<>> THEN <<"x">>
    ELSE NoteText(SubSeq(link_texts, 1, Len(link_texts) - 1))
         \o <<"[", "[">> \o link_texts[Len(link_texts)] \o <<"]", "]">>

ParseNote(category, stem, content) ==
    [id        |-> GenerateId(category, TitleOfStem(stem)),
     title     |-> TitleOfStem(stem),
     content   |-> content,
     category  |-> category,
     file_path |-> [dir |-> category, stem |-> stem]]

-----------------------------------------------------------------------------
(* TreeParser *)

\* WIKI_LINK_PATTERN, \[\[([^\]]+)\]\], tried at position i of s: behind
\* "[[" the group takes every character up to the next "]", "|" and "["
\* included, it is not empty, and "]]" follows. The position behind the
\* match, 0 when there is no match
WikiLinkMatchAt(s, i) ==
    LET closing[j \in (i + 2)..(Len(s) + 1)] ==
            IF j > Len(s) THEN 0
            ELSE IF s[j] # "]" THEN closing[j + 1]
            ELSE IF j > i + 2 /\ j + 1 <= Len(s) /\ s[j + 1] = "]" THEN j + 2
            ELSE 0
    IN  IF i + 1 > Len(s) \/ s[i] # "[" \/ s[i + 1] # "[" THEN 0
        ELSE closing[i + 2]

\* [match.strip() for match in WIKI_LINK_PATTERN.findall(content)]: the scan
\* from position i on; a match gives its group and the scan goes on behind
\* it, otherwise it moves one character
extract_wiki_links(content) ==
    LET scan[i \in 1..(Len(content) + 1)] ==
            IF i > Len(content) THEN <<>>
            ELSE IF WikiLinkMatchAt(content, i) = 0 THEN scan[i + 1]
            ELSE <<StrStrip(SubSeq(content, i + 2,
                                   WikiLinkMatchAt(content, i) - 3))>>
                 \o scan[WikiLinkMatchAt(content, i)]
    IN  scan[1]

is_root_note(note) ==
    /\ Len(note.file_path.stem) > 0
    /\ note.file_path.stem[1] \in {"N", "n"}

\* first of a dict's values (in dict order) that lies in S, or 0
FirstValue(d, S) ==
    IF \E i \in 1..Len(d) : d[i].v \in S
    THEN d[CHOOSE i \in 1..Len(d) :
              /\ d[i].v \in S
              /\ \A j \in 1..(i - 1) : d[j].v \notin S].v
    ELSE 0

\* a slip in strategies 2-4: the category of the candidate is not looked at
InCategoryAny(n, base_category) == n \in 1..Len(notes)

\* "note.category == base_category", lines 121, 127 and 135
InCategory(n, base_category) == notes[n].category = base_category

\* returns an index into notes, 0 for None
find_note_by_link_text(link_text, base_category) ==
    LET lt == Lower(link_text)
        All == 1..Len(notes)
        S2 == {n \in All : InCategory(n, base_category)
                           /\ Lower(notes[n].title) = lt}
        S3 == {n \in All : InCategory(n, base_category)
                           /\ Contains(Lower(notes[n].title), lt)}
        S4 == {n \in All : Lower(notes[n].file_path.stem) = lt
                           /\ InCategory(n, base_category)}
    IN  IF DictHas(notes_by_title, link_text)
        THEN DictGet(notes_by_title, link_text)
        ELSE IF FirstValue(notes_by_id, S2) # 0
        THEN FirstValue(notes_by_id, S2)
        ELSE IF FirstValue(notes_by_id, S3) # 0
        THEN FirstValue(notes_by_id, S3)
        ELSE FirstValue(notes_by_filepath, S4)

\* TreeNode(note, is_root, is_leaf, depth): parent None (0), no children
TreeNode(note, is_root, depth) ==
    [note       |-> note,
     is_root    |-> is_root,
     is_leaf    |-> FALSE,
     depth      |-> depth,
     children   |-> <<>>,
     parent     |-> 0,
     wiki_links |-> <<>>]

\* a slip in add_child: the child is left on its parent's level
ChildDepthSameLevel(parent_depth) == parent_depth

\* the depth TreeNode.add_child gives the child
ChildDepth(parent_depth) == parent_depth + 1

\* parent.add_child(child), on the node table; p and c are node indices
add_child(ns, p, c) ==
    [ns EXCEPT ![p].children = Append(@, c),
               ![c].parent   = p,
               ![c].depth    = ChildDepth(ns[p].depth)]

\* a slip in the cycle check: only the root is recognised as visited
IsVisitedRootOnly(vis, id) == nodes # <<>> /\ id = notes[nodes[1].note].id

\* "child_note.id in visited"
IsVisited(vis, id) == id \in vis

\* a slip in the bookkeeping: the child's id is never recorded
MarkVisitedForgets(vis, id) == vis

\* "visited.add(child_note.id)"
MarkVisited(vis, id) == vis \cup {id}

Top == stack[Len(stack)]

\* the note the loop of the top activation is looking at, 0 when unresolved
CurrentLink == nodes[Top.node].wiki_links[Top.i]
CurrentChild == find_note_by_link_text(CurrentLink, Top.category)

InLoop ==
    /\ pc = "building"
    /\ Len(stack) > 0
    /\ Top.entered
    /\ Top.i <= Len(nodes[Top.node].wiki_links)

\* build_tree(root_note, all_notes) up to the first recursive call
BuildTree(r) ==
    /\ pc = "idle"
    /\ is_root_note(notes[r])
    /\ notes_by_id' = DictOf(notes, "id", Len(notes))
    /\ notes_by_title' = DictOf(notes, "title", Len(notes))
    /\ notes_by_filepath' = DictOf(notes, "file_path", Len(notes))
    /\ nodes' = <<TreeNode(r, TRUE, 0)>>
    /\ visited' = {notes[r].id}
    /\ stack' = <<[node |-> 1, category |-> notes[r].category,
                   i |-> 1, entered |-> FALSE]>>
    /\ pc' = "building"
    /\ UNCHANGED notes
    /\ UNCHANGED <<navigation, ragVars, chatVars, chunkVars, navVars, loopVars, textVars>>

\* _build_tree_recursive, lines 183-189: extract the links; no links: leaf, return
EnterNode ==
    /\ pc = "building"
    /\ Len(stack) > 0
    /\ ~Top.entered
    /\ LET links == extract_wiki_links(notes[nodes[Top.node].note].content)
       IN  IF links = <<>>
           THEN /\ nodes' = [nodes EXCEPT ![Top.node].wiki_links = links,
                                          ![Top.node].is_leaf = TRUE]
                /\ stack' = SubSeq(stack, 1, Len(stack) - 1)
           ELSE /\ nodes' = [nodes EXCEPT ![Top.node].wiki_links = links]
                /\ stack' = [stack EXCEPT ![Len(stack)].entered = TRUE]
    /\ UNCHANGED <<notes, notes_by_id, notes_by_title, notes_by_filepath,
                   visited, pc>>
    /\ UNCHANGED <<navigation, ragVars, chatVars, chunkVars, navVars, loopVars, textVars>>

\* lines 194-198: the link resolves to no note: continue
SkipUnresolved ==
    /\ InLoop
    /\ CurrentChild = 0
    /\ stack' = [stack EXCEPT ![Len(stack)].i = @ + 1]
    /\ UNCHANGED <<notes, notes_by_id, notes_by_title, notes_by_filepath,
                   nodes, visited, pc>>
    /\ UNCHANGED <<navigation, ragVars, chatVars, chunkVars, navVars, loopVars, textVars>>

\* lines 200-203: the note is already in the tree: continue
SkipVisited ==
    /\ InLoop
    /\ CurrentChild # 0
    /\ IsVisited(visited, notes[CurrentChild].id)
    /\ stack' = [stack EXCEPT ![Len(stack)].i = @ + 1]
    /\ UNCHANGED <<notes, notes_by_id, notes_by_title, notes_by_filepath,
                   nodes, visited, pc>>
    /\ UNCHANGED <<navigation, ragVars, chatVars, chunkVars, navVars, loopVars, textVars>>

\* lines 205-218: mark, create the child, attach it, recurse into it
AddChild ==
    /\ InLoop
    /\ CurrentChild # 0
    /\ ~IsVisited(visited, notes[CurrentChild].id)
    /\ Len(stack) < MaxDepth
    /\ LET c == Len(nodes) + 1
           child == TreeNode(CurrentChild, FALSE, nodes[Top.node].depth + 1)
       IN  /\ visited' = MarkVisited(visited, notes[CurrentChild].id)
           /\ nodes' = add_child(Append(nodes, child), Top.node, c)
           /\ stack' = Append([stack EXCEPT ![Len(stack)].i = @ + 1],
                              [node |-> c, category |-> Top.category,
                               i |-> 1, entered |-> FALSE])
    /\ UNCHANGED <<notes, notes_by_id, notes_by_title, notes_by_filepath, pc>>
    /\ UNCHANGED <<navigation, ragVars, chatVars, chunkVars, navVars, loopVars, textVars>>

\* the for loop is exhausted: _build_tree_recursive returns
ReturnFromNode ==
    /\ pc = "building"
    /\ Len(stack) > 0
    /\ Top.entered
    /\ Top.i > Len(nodes[Top.node].wiki_links)
    /\ stack' = SubSeq(stack, 1, Len(stack) - 1)
    /\ UNCHANGED <<notes, notes_by_id, notes_by_title, notes_by_filepath,
                   nodes, visited, pc>>
    /\ UNCHANGED <<navigation, ragVars, chatVars, chunkVars, navVars, loopVars, textVars>>

\* build_tree, line 166: return root
ReturnTree ==
    /\ pc = "building"
    /\ stack = <<>>
    /\ pc' = "done"
    /\ UNCHANGED <<notes, notes_by_id, notes_by_title, notes_by_filepath,
                   nodes, visited, stack>>
    /\ UNCHANGED <<navigation, ragVars, chatVars, chunkVars, navVars, loopVars, textVars>>

-----------------------------------------------------------------------------
(* TreeParser.get_navigation_context, on the node table of a built tree *)

\* _find_node_in_tree(tree, note_id): depth first, children in list order;
\* returns a node index, 0 for None
RECURSIVE find_node_in_tree(_, _)
RECURSIVE FindInChildren(_, _, _)

find_node_in_tree(tree, note_id) ==
    IF notes[nodes[tree].note].id = note_id THEN tree
    ELSE FindInChildren(nodes[tree].children, 1, note_id)

\* lines 334-339: the loop over tree.children, from the k-th child on
FindInChildren(children, k, note_id) ==
    IF k > Len(children) THEN 0
    ELSE IF find_node_in_tree(children[k], note_id) # 0
    THEN find_node_in_tree(children[k], note_id)
    ELSE FindInChildren(children, k + 1, note_id)

\* {"title": ..., "file_path": ...} of a node
NodeEntry(i) ==
    [title     |-> notes[nodes[i].note].title,
     file_path |-> notes[nodes[i].note].file_path]

\* a slip in the breadcrumb loop: the entry is appended
InsertFirstAppends(breadcrumbs, entry) == Append(breadcrumbs, entry)

\* line 282: breadcrumbs.insert(0, entry)
InsertFirst(breadcrumbs, entry) == <<entry>> \o breadcrumbs

\* lines 280-286: walk the parent pointers from the node up to None
RECURSIVE BreadcrumbLoop(_, _)
BreadcrumbLoop(current, breadcrumbs) ==
    IF current = 0 THEN breadcrumbs
    ELSE BreadcrumbLoop(nodes[current].parent,
                        InsertFirst(breadcrumbs, NodeEntry(current)))

NodeEntries(children) == [k \in 1..Len(children) |-> NodeEntry(children[k])]

\* lines 289-295: the parent's children whose note id is not the note's
SiblingsOf(node, note_id) ==
    IF nodes[node].parent = 0 THEN <<>>
    ELSE LET IsOther(child) == notes[nodes[child].note].id # note_id
         IN  NodeEntries(SelectSeq(nodes[nodes[node].parent].children, IsOther))

\* get_navigation_context(note, tree); note is an index into notes, tree a
\* node index, parent None is 0
get_navigation_context(note, tree) ==
    LET node == find_node_in_tree(tree, notes[note].id)
    IN  IF node = 0
        THEN [breadcrumbs |-> <<>>, siblings |-> <<>>, children |-> <<>>,
              parent |-> 0]
        ELSE [breadcrumbs |-> BreadcrumbLoop(node, <<>>),
              siblings    |-> SiblingsOf(node, notes[note].id),
              children    |-> NodeEntries(nodes[node].children),
              parent      |-> IF nodes[node].parent = 0 THEN 0
                              ELSE NodeEntry(nodes[node].parent),
              is_leaf     |-> nodes[node].is_leaf,
              depth       |-> nodes[node].depth]

\* the navigation context of a note of the vault is asked of the built tree
NavigationContext(n) ==
    /\ pc = "done"
    /\ navigation' = [op |-> "context", note |-> n,
                      context |-> get_navigation_context(n, 1)]
    /\ UNCHANGED <<notes, notes_by_id, notes_by_title, notes_by_filepath,
                   nodes, visited, stack, pc>>
    /\ UNCHANGED <<ragVars, chatVars, chunkVars, navVars, loopVars, textVars>>

-----------------------------------------------------------------------------
(* The vaults the tree builder is run on *)

LinkTexts == {<<"a">>, <<"b">>, <<"B">>}

\* the third file of the vault: "B.md" beside "b.md" (one id for two files),
\* "ab.md" in either category (a title that only contains a link text), or a
\* second "b.md" (one title for two files)
ThirdFiles ==
    {[dir |-> "c1", stem |-> <<"B">>],
     [dir |-> "c1", stem |-> <<"a", "b">>],
     [dir |-> "c2", stem |-> <<"a", "b">>],
     [dir |-> "c2", stem |-> <<"b">>]}

\* the retrieval pipeline at rest
RagIdle ==
    /\ query = <<>>
    /\ results = <<>>
    /\ context_limit = 0
    /\ ranked = <<>>
    /\ context_parts = <<>>
    /\ context = <<>>
    /\ citations = <<>>
    /\ rpc = "start"
    /\ calls = <<>>
    /\ prompt = <<>>
    /\ history = <<>>

\* the language-model service with no backend registered and nothing called
ChatIdle ==
    /\ providers = <<>>
    /\ llm_call = [op |-> "none"]
    /\ stream = [state |-> "none"]
    /\ http = [status |-> 0]
    /\ sse = [op |-> "none"]

\* the chunker before any note is handed to it
ChunkIdle ==
    /\ cnote = [id |-> <<>>, content |-> <<>>]
    /\ chunker = [words_per_chunk |-> 0, overlap_words |-> 0, min_words |-> 0]
    /\ candidates = <<>>
    /\ note_chunks = <<>>
    /\ cpc = "idle"

\* lines 19-21 of api/tree.py: the module globals at import
NavIdle ==
    /\ vault_notes = <<>>
    /\ trees_cache = <<>>
    /\ init_runs = 0
    /\ found_roots = <<>>
    /\ nav = [op |-> "none"]

\* an event loop with no request
LoopIdle ==
    /\ tasks = <<>>
    /\ running = 0

\* no text has been scanned
TextIdle ==
    /\ response = <<>>
    /\ unique_citations = <<>>
    /\ markdown = <<>>
    /\ tree_links = <<>>
    /\ note_links = <<>>
    /\ tpc = "idle"

\* file 1 is the root note "c1/Notes - a.md", file 2 is "b.md" in either
\* category, file 3 is one of ThirdFiles at another path than file 2; the
\* three contents hold at most MaxLinks [[links]] together
InitTree ==
    /\ \E s \in SeqUpTo(LinkTexts, MaxLinks) :
       \E p \in 0..Len(s) :
       \E q \in p..Len(s) :
       \E d2 \in Cats :
       \E f3 \in ThirdFiles :
          /\ f3 # [dir |-> d2, stem |-> <<"b">>]
          /\ notes = <<ParseNote("c1", <<"N", "a">>,
                                 NoteText(SubSeq(s, 1, p))),
                       ParseNote(d2, <<"b">>, NoteText(SubSeq(s, p + 1, q))),
                       ParseNote(f3.dir, f3.stem,
                                 NoteText(SubSeq(s, q + 1, Len(s))))>>
    /\ notes_by_id = <<>>
    /\ notes_by_title = <<>>
    /\ notes_by_filepath = <<>>
    /\ nodes = <<>>
    /\ visited = {}
    /\ stack = <<>>
    /\ pc = "idle"
    /\ navigation = [op |-> "none"]
    /\ RagIdle
    /\ ChatIdle
    /\ ChunkIdle
    /\ NavIdle
    /\ LoopIdle
    /\ TextIdle

NextTree ==
    \/ \E r \in 1..Len(notes) : BuildTree(r)
    \/ \E n \in 1..Len(notes) : NavigationContext(n)
    \/ EnterNode
    \/ SkipUnresolved
    \/ SkipVisited
    \/ AddChild
    \/ ReturnFromNode
    \/ ReturnTree

SpecTree == InitTree /\ [][NextTree]_vars

\* the interpreter runs build_tree to completion once it is called
SpecTreeFair == SpecTree /\ WF_vars(NextTree)

-----------------------------------------------------------------------------
(* RAGEngine._rerank_results *)

\* Scores are exact fractions: a final score is kept as its numerator over
\* ScoreDen(query); distances and similarities are in hundredths.

Max(a, b) == IF a >= b THEN a ELSE b
Min(a, b) == IF a <= b THEN a ELSE b

\* set(text.lower().split())
WordSet(text) == {LowerTok(text[i]) : i \in 1..Len(text)}

\* the denominator shared by the final scores of one query
ScoreDen(q) == 10000 * Max(1, Cardinality(WordSet(q)))

\* similarity = 1.0 - distance
Similarity(distance) == 100 - distance

\* keyword_overlap * 0.2, over ScoreDen(q)
KeywordBonus(q, text) ==
    IF WordSet(q) # {}
    THEN 2000 * Cardinality(WordSet(q) \cap WordSet(text))
    ELSE 0

\* min(link_count * 0.01, 0.1), over 10000; nothing is added when eval raises
LinkBonus(links) ==
    IF links.kind = "malformed"
    THEN 0
    ELSE LET link_count == IF links.kind = "list" THEN links.n ELSE 0
         IN  Min(link_count * 100, 1000)

\* the composite score of one hit, over ScoreDen(q)
FinalScore(q, hit) ==
    LET den == Max(1, Cardinality(WordSet(q)))
    IN  70 * Similarity(hit.distance) * den
        + KeywordBonus(q, hit.text)
        + LinkBonus(hit.metadata.links) * den

\* the chunk dict built for hit i
MakeChunk(q, hit) ==
    [id          |-> hit.id,
     text        |-> hit.text,
     metadata    |-> hit.metadata,
     distance    |-> hit.distance,
     similarity  |-> Similarity(hit.distance),
     final_score |-> FinalScore(q, hit)]

\* a slip in the sort: a later chunk overtakes an earlier one of equal score
StaysAheadStrict(x, c) == x.final_score > c.final_score

\* list.sort(key=final_score, reverse=True) is stable: a chunk x that came
\* earlier stays ahead of c unless c scores strictly higher
StaysAhead(x, c) == x.final_score >= c.final_score

\* c placed behind the chunks that stay ahead of it
InsertDesc(sorted, c) ==
    LET k == Cardinality({i \in 1..Len(sorted) : StaysAhead(sorted[i], c)})
    IN  SubSeq(sorted, 1, k) \o <<c>> \o SubSeq(sorted, k + 1, Len(sorted))

RECURSIVE SortDesc(_, _)
SortDesc(chunks, n) ==
    IF n = 0 THEN <<>> ELSE InsertDesc(SortDesc(chunks, n - 1), chunks[n])

rerank_results(q, res) ==
    IF Len(res) = 0
    THEN <<>>
    ELSE SortDesc([i \in 1..Len(res) |-> MakeChunk(q, res[i])], Len(res))

-----------------------------------------------------------------------------
(* RAGEngine._assemble_context *)

\* characters of a text kept in a citation's snippet
SnippetChars == 200

\* int(self.context_limit * 0.75)
MaxWordsOf(limit) == (limit * 3) \div 4

\* len(text.split())
WordCount(text) == Len(text)

\* len(text): one-letter words joined by single blanks
CharCount(text) == IF Len(text) = 0 THEN 0 ELSE 2 * Len(text) - 1

\* source_label: "{book} - {title}" if book else title
SourceLabel(metadata) ==
    IF metadata.book # <<>>
    THEN metadata.book \o <<"-">> \o metadata.title
    ELSE metadata.title

\* the tokens split() finds in "[Source: {label}]\n{text}"; the closing
\* bracket clings to the label's last word, and stands alone after an empty
\* label
FormatBlock(chunk) ==
    LET label == SourceLabel(chunk.metadata)
    IN  <<"[Source:">> \o (IF label = <<>> THEN <<"]">> ELSE label)
        \o chunk.text

\* round(final_score, 3), in thousandths
Round3(num, den) == (2000 * num + den) \div (2 * den)

MakeCitation(chunk, den) ==
    [title           |-> chunk.metadata.title,
     category        |-> chunk.metadata.category,
     book            |-> chunk.metadata.book,
     file_path       |-> chunk.metadata.file_path,
     snippet         |-> IF CharCount(chunk.text) > SnippetChars
                         THEN SubSeq(chunk.text, 1, SnippetChars \div 2)
                              \o <<"...">>
                         ELSE chunk.text,
     relevance_score |-> Round3(chunk.final_score, den)]

\* a slip in the budget test: the chunk at hand is not counted
OverflowsWithoutChunk(total_words, chunk_words, max_words) ==
    total_words > max_words

\* "total_words + chunk_words > max_words"
Overflows(total_words, chunk_words, max_words) ==
    total_words + chunk_words > max_words

\* a slip in the bookkeeping: a title already cited is not cited again
TakeChunkCiteOnce(acc, chunk, den) ==
    [parts       |-> Append(acc.parts, FormatBlock(chunk)),
     cits        |-> IF \E i \in 1..Len(acc.cits) :
                            acc.cits[i].title = chunk.metadata.title
                     THEN acc.cits
                     ELSE Append(acc.cits, MakeCitation(chunk, den)),
     total_words |-> acc.total_words + WordCount(chunk.text)]

\* lines 165-188: the block, the citation and the running total of one chunk
TakeChunk(acc, chunk, den) ==
    [parts       |-> Append(acc.parts, FormatBlock(chunk)),
     cits        |-> Append(acc.cits, MakeCitation(chunk, den)),
     total_words |-> acc.total_words + WordCount(chunk.text)]

RECURSIVE AssembleLoop(_, _, _, _, _)

\* a slip in the loop: the overflowing chunk is skipped and the loop goes on
OnOverflowContinue(chunks, i, acc, max_words, den) ==
    AssembleLoop(chunks, i + 1, acc, max_words, den)

\* "break": nothing after the first overflowing chunk is looked at
OnOverflow(chunks, i, acc, max_words, den) == acc

\* for i, chunk in enumerate(chunks), from chunk i on
AssembleLoop(chunks, i, acc, max_words, den) ==
    IF i > Len(chunks)
    THEN acc
    ELSE IF Overflows(acc.total_words, WordCount(chunks[i].text), max_words)
    THEN OnOverflow(chunks, i, acc, max_words, den)
    ELSE AssembleLoop(chunks, i + 1, TakeChunk(acc, chunks[i], den),
                      max_words, den)

\* "\n\n---\n\n".join(context_parts), as split() sees it
RECURSIVE JoinParts(_, _)
JoinParts(parts, n) ==
    IF n = 0 THEN <<>>
    ELSE IF n = 1 THEN parts[1]
    ELSE JoinParts(parts, n - 1) \o <<"---">> \o parts[n]

assemble_context(chunks, limit, den) ==
    LET acc == AssembleLoop(chunks, 1,
                            [parts |-> <<>>, cits |-> <<>>, total_words |-> 0],
                            MaxWordsOf(limit), den)
    IN  [context_parts |-> acc.parts,
         context       |-> JoinParts(acc.parts, Len(acc.parts)),
         citations     |-> acc.cits]

-----------------------------------------------------------------------------
(* RAGEngine.construct_prompt *)

\* line 250: conversation_history[-6:]
HistoryWindow == 6

PromptLine(kind, text) == [kind |-> kind, text |-> text]

\* a slip in the window: the oldest messages are kept
LastNTakesFirst(seq, n) ==
    IF Len(seq) <= n THEN seq ELSE SubSeq(seq, 1, n)

\* seq[-n:] for n > 0
LastN(seq, n) ==
    IF Len(seq) <= n THEN seq ELSE SubSeq(seq, Len(seq) - n + 1, Len(seq))

\* lines 246-254: the history block, absent when there is no history
HistoryBlock(conversation_history) ==
    IF conversation_history = <<>> THEN <<>>
    ELSE LET recent_history == LastN(conversation_history, HistoryWindow)
         IN  <<PromptLine("header", <<"=== CONVERSATION HISTORY ===">>)>>
             \o [i \in 1..Len(recent_history) |->
                    PromptLine(IF recent_history[i].role = "user"
                               THEN "User" ELSE "Assistant",
                               recent_history[i].content)]
             \o <<PromptLine("blank", <<>>)>>

\* construct_prompt(query, context, conversation_history): the lines that
\* are joined with "\n"; None and [] are both given as <<>>
construct_prompt(q, ctx, conversation_history) ==
    <<PromptLine("header", <<"=== SYSTEM ===">>),
      PromptLine("system_prompt", <<>>),
      PromptLine("blank", <<>>),
      PromptLine("header", <<"=== RELEVANT KNOWLEDGE ===">>),
      PromptLine("context", ctx),
      PromptLine("blank", <<>>)>>
    \o HistoryBlock(conversation_history)
    \o <<PromptLine("header", <<"=== CURRENT QUESTION ===">>),
         PromptLine("User", q),
         PromptLine("blank", <<>>),
         PromptLine("instruction", <<>>),
         PromptLine("blank", <<>>),
         PromptLine("Assistant", <<>>)>>

-----------------------------------------------------------------------------
(* One query: RAGEngine.retrieve_context, then construct_prompt *)

StageCall(stage, ok) == [stage |-> stage, ok |-> ok]

\* a pipeline that goes on to the next stage whatever the call did
StageOutcomeSwallowed(ok, next) == next

\* retrieve_context wraps no call in try/except: when a collaborator raises,
\* the exception leaves retrieve_context and the query is over
StageOutcome(ok, next) == IF ok THEN next ELSE "failed"

\* step 1, line 63: query_embedding = self.embedding_service.embed_text(query)
Embed(ok) ==
    /\ rpc = "start"
    /\ calls' = Append(calls, StageCall("embed", ok))
    /\ rpc' = StageOutcome(ok, "embedded")
    /\ UNCHANGED <<history, query, results, context_limit, ranked, context_parts,
                   context, citations, prompt>>
    /\ UNCHANGED <<treeVars, chatVars, chunkVars, navVars, loopVars, textVars>>

\* step 2, lines 66-71: results = self.vector_db.query(...); hits is what the
\* index answers when it answers
VectorQuery(ok, hits) ==
    /\ rpc = "embedded"
    /\ calls' = Append(calls, StageCall("vector_query", ok))
    /\ rpc' = StageOutcome(ok, "query")
    /\ results' = IF ok THEN hits ELSE results
    /\ UNCHANGED <<history, query, context_limit, ranked, context_parts, context,
                   citations, prompt>>
    /\ UNCHANGED <<treeVars, chatVars, chunkVars, navVars, loopVars, textVars>>

\* step 3: ranked_chunks = self._rerank_results(query, results)
Rerank ==
    /\ rpc = "query"
    /\ calls' = Append(calls, StageCall("rerank", TRUE))
    /\ ranked' = rerank_results(query, results)
    /\ rpc' = "ranked"
    /\ UNCHANGED <<history, query, results, context_limit, context_parts, context,
                   citations, prompt>>
    /\ UNCHANGED <<treeVars, chatVars, chunkVars, navVars, loopVars, textVars>>

\* step 4: context, citations = self._assemble_context(ranked_chunks)
Assemble ==
    /\ rpc = "ranked"
    /\ calls' = Append(calls, StageCall("assemble", TRUE))
    /\ LET out == assemble_context(ranked, context_limit, ScoreDen(query))
       IN  /\ context_parts' = out.context_parts
           /\ context' = out.context
           /\ citations' = out.citations
    /\ rpc' = "assembled"
    /\ UNCHANGED <<history, query, results, context_limit, ranked, prompt>>
    /\ UNCHANGED <<treeVars, chatVars, chunkVars, navVars, loopVars, textVars>>

\* the caller's next statement (rag_engine.py line 341, chat.py lines 57-61):
\* prompt = construct_prompt(query, context, conversation_history); the
\* callers of this repository pass no history
ConstructPrompt ==
    /\ rpc = "assembled"
    /\ calls' = Append(calls, StageCall("prompt", TRUE))
    /\ prompt' = construct_prompt(query, context, history)
    /\ rpc' = "prompted"
    /\ UNCHANGED <<history, query, results, context_limit, ranked, context_parts,
                   context, citations>>
    /\ UNCHANGED <<treeVars, chatVars, chunkVars, navVars, loopVars, textVars>>

\* most hits one vector query returns
MaxHits == 3

\* largest context_limit an engine is built with
MaxLimit == 8

Queries == {<<>>, <<"a">>, <<"A", "b">>, <<"a", "b", "c">>}

Meta(title, book, kind, n) ==
    [title     |-> title,
     category  |-> "c1",
     book      |-> book,
     file_path |-> <<"c1">> \o book \o title,
     links     |-> [kind |-> kind, n |-> n]]

\* the hits the index may return: text, metadata, cosine distance in [0,2]
HitShapes ==
    {[text |-> <<"a">>, distance |-> 0,
      metadata |-> Meta(<<"T">>, <<>>, "list", 0)],
     [text |-> <<"a", "b">>, distance |-> 0,
      metadata |-> Meta(<<"T", "U">>, <<"K">>, "list", 0)],
     [text |-> <<"b", "b", "A">>, distance |-> 50,
      metadata |-> Meta(<<"T">>, <<"K">>, "list", 12)],
     [text |-> <<"c", "c">>, distance |-> 200,
      metadata |-> Meta(<<"T">>, <<>>, "malformed", 0)],
     [text |-> <<"A", "b">>, distance |-> 100,
      metadata |-> Meta(<<"U">>, <<>>, "list", 3)],
     [text |-> <<"b">>, distance |-> 150,
      metadata |-> Meta(<<"U">>, <<"K">>, "other", 0)],
     [text |-> <<"a", "a", "c", "a">>, distance |-> 0,
      metadata |-> Meta(<<>>, <<>>, "list", 10)],
     [text |-> <<"c">>, distance |-> 20,
      metadata |-> Meta(<<"T">>, <<>>, "list", 0)]}

\* the tree builder at rest
TreeIdle ==
    /\ notes = <<>>
    /\ notes_by_id = <<>>
    /\ notes_by_title = <<>>
    /\ notes_by_filepath = <<>>
    /\ nodes = <<>>
    /\ visited = {}
    /\ stack = <<>>
    /\ pc = "idle"
    /\ navigation = [op |-> "none"]

\* the answers the vector index can give: at most MaxHits hits, each of one
\* of the shapes; ids are the hit positions
IndexAnswers ==
    UNION {{[i \in 1..n |-> [id       |-> i,
                             text     |-> f[i].text,
                             metadata |-> f[i].metadata,
                             distance |-> f[i].distance]] :
              f \in [1..n -> HitShapes]} : n \in 0..MaxHits}

\* a query and an engine, before retrieve_context is called
InitRag ==
    /\ query \in Queries
    /\ context_limit \in 0..MaxLimit
    /\ results = <<>>
    /\ ranked = <<>>
    /\ context_parts = <<>>
    /\ context = <<>>
    /\ citations = <<>>
    /\ rpc = "start"
    /\ calls = <<>>
    /\ prompt = <<>>
    /\ history = <<>>
    /\ TreeIdle
    /\ ChatIdle
    /\ ChunkIdle
    /\ NavIdle
    /\ LoopIdle
    /\ TextIdle

\* longest conversation history a caller passes
MaxHistory == 7

\* the text of the i-th message of a conversation
MessageWords == <<"m1", "m2", "m3", "m4", "m5", "m6", "m7", "m8", "m9">>

\* the role of a message: the two the chat uses, and any other
Roles == {"user", "assistant", "system"}

Histories ==
    UNION {{[i \in 1..n |-> [role |-> r[i], content |-> <<MessageWords[i]>>]] :
              r \in [1..n -> Roles]} : n \in 0..MaxHistory}

\* a caller that holds a conversation: retrieve_context has returned the
\* context, construct_prompt is called next with the history
InitPrompt ==
    /\ query \in Queries
    /\ context \in {<<>>, <<"c">>}
    /\ history \in Histories
    /\ context_limit = MaxLimit
    /\ results = <<>>
    /\ ranked = <<>>
    /\ context_parts = <<>>
    /\ citations = <<>>
    /\ rpc = "assembled"
    /\ calls = <<>>
    /\ prompt = <<>>
    /\ TreeIdle
    /\ ChatIdle
    /\ ChunkIdle
    /\ NavIdle
    /\ LoopIdle
    /\ TextIdle

NextPrompt == ConstructPrompt

SpecPrompt == InitPrompt /\ [][NextPrompt]_vars

NextRag ==
    \/ \E ok \in BOOLEAN : Embed(ok)
    \/ \E ok \in BOOLEAN, hits \in IndexAnswers : VectorQuery(ok, hits)
    \/ Rerank
    \/ Assemble
    \/ ConstructPrompt

SpecRag == InitRag /\ [][NextRag]_vars

-----------------------------------------------------------------------------
(* LLMService (services/llm_service.py) *)

\* most chunks a backend streams for one prompt
MaxFrags == 2

Range(seq) == {seq[i] : i \in 1..Len(seq)}

\* the names LLMService.__init__ may register, in its order
ProviderOrder == <<"ollama", "openai", "anthropic">>

\* the order-preserving sub-lists of ProviderOrder
RECURSIVE Filter(_, _)
Filter(seq, S) ==
    IF seq = <<>> THEN <<>>
    ELSE IF Head(seq) \in S THEN <<Head(seq)>> \o Filter(Tail(seq), S)
    ELSE Filter(Tail(seq), S)

ProviderLists == {Filter(ProviderOrder, S) : S \in SUBSET Range(ProviderOrder)}

\* the names a caller may ask for; "llama3.1" is ChatRequest.model's default
RequestedNames == {"ollama", "openai", "anthropic", "llama3.1"}

is_available(provs, name) == name \in Range(provs)

get_available_providers(provs) == provs

\* a slip in the fallback: the last registered backend instead of the first
ResolveProviderLast(provs, name) ==
    IF name \in Range(provs)
    THEN [ok |-> TRUE, provider |-> name]
    ELSE IF provs # <<>>
    THEN [ok |-> TRUE, provider |-> provs[Len(provs)]]
    ELSE [ok |-> FALSE, provider |-> "none"]

\* lines 278-284 and 306-312: the backend a call is given to; a name that is
\* not registered falls back to list(self.providers.keys())[0], and raises
\* ValueError("No LLM providers available") when nothing is registered
ResolveProvider(provs, name) ==
    IF name \in Range(provs)
    THEN [ok |-> TRUE, provider |-> name]
    ELSE IF provs # <<>>
    THEN [ok |-> TRUE, provider |-> provs[1]]
    ELSE [ok |-> FALSE, provider |-> "none"]

\* await LLMService.generate(prompt, provider=name); backend_ok says whether
\* the backend's generate returns or raises
generate(provs, name, backend_ok) ==
    LET r == ResolveProvider(provs, name)
    IN  IF ~r.ok
        THEN [op |-> "generate", requested |-> name, invoked |-> <<>>,
              outcome |-> "no_providers"]
        ELSE [op |-> "generate", requested |-> name,
              invoked |-> <<r.provider>>,
              outcome |-> IF backend_ok THEN "returned" ELSE "backend_error"]

Generate(name, backend_ok) ==
    /\ llm_call' = generate(providers, name, backend_ok)
    /\ UNCHANGED <<sse, providers, stream, http>>
    /\ UNCHANGED <<treeVars, ragVars, chunkVars, navVars, loopVars, textVars>>

\* the raw chunks a backend can send: "x" and "y" carry text, "-" carries none
\* (an Ollama chunk without 'response', an OpenAI delta with empty content)
RawChunks == {"x", "y", "-"}

HasText(raw) == raw # "-"

RECURSIVE TextFragments(_)
\* the text fragments of a sequence of raw chunks, in order
TextFragments(raws) ==
    IF raws = <<>> THEN <<>>
    ELSE IF HasText(Head(raws)) THEN <<Head(raws)>> \o TextFragments(Tail(raws))
    ELSE TextFragments(Tail(raws))

RECURSIVE ProviderNext(_)
\* one __anext__ of a provider's generate_stream: raw chunks are read from
\* the backend up to and including the first one with text, which is yielded
ProviderNext(pending) ==
    IF pending = <<>> THEN [chunk |-> <<>>, pending |-> <<>>]
    ELSE IF HasText(Head(pending))
    THEN [chunk |-> <<Head(pending)>>, pending |-> Tail(pending)]
    ELSE ProviderNext(Tail(pending))

\* a forwarding loop that hands the newest fragment over ahead of the others
ForwardNewestFirst(yielded, chunk) == <<chunk>> \o yielded

\* line 316, "yield chunk": the caller receives the fragment after the
\* ones it already has
Forward(yielded, chunk) == Append(yielded, chunk)

\* the first step of "async for chunk in generate_stream(...)": the backend
\* is chosen and its stream opened; frags are the raw chunks that backend
\* will send and backend_ok says whether its stream ends normally; the
\* model follows one streaming call
StreamOpen(name, frags, backend_ok) ==
    /\ stream.state = "none"
    /\ LET r == ResolveProvider(providers, name)
       IN  IF ~r.ok
           THEN /\ llm_call' = [op |-> "generate_stream", requested |-> name,
                                invoked |-> <<>>, outcome |-> "no_providers"]
                /\ stream' = [state |-> "raised", source |-> <<>>,
                              pending |-> <<>>, yielded |-> <<>>]
           ELSE /\ llm_call' = [op |-> "generate_stream", requested |-> name,
                                invoked |-> <<r.provider>>,
                                outcome |-> "streaming"]
                /\ stream' = [state |-> "open", source |-> frags,
                              pending |-> frags, chunk |-> <<>>,
                              yielded |-> <<>>, backend_ok |-> backend_ok]
    /\ UNCHANGED <<sse, providers, http>>
    /\ UNCHANGED <<treeVars, ragVars, chunkVars, navVars, loopVars, textVars>>

\* line 315, "async for chunk in llm.generate_stream(...)": the next
\* fragment is taken from the backend
StreamTake ==
    /\ stream.state = "open"
    /\ stream.chunk = <<>>
    /\ stream.pending # <<>>
    /\ LET n == ProviderNext(stream.pending)
       IN  stream' = [stream EXCEPT !.pending = n.pending, !.chunk = n.chunk]
    /\ UNCHANGED <<sse, providers, llm_call, http>>
    /\ UNCHANGED <<treeVars, ragVars, chunkVars, navVars, loopVars, textVars>>

\* line 316: the fragment just taken is yielded to the caller
StreamYield ==
    /\ stream.state = "open"
    /\ stream.chunk # <<>>
    /\ stream' = [stream EXCEPT !.chunk = <<>>,
                                !.yielded = Forward(@, stream.chunk[1])]
    /\ UNCHANGED <<sse, providers, llm_call, http>>
    /\ UNCHANGED <<treeVars, ragVars, chunkVars, navVars, loopVars, textVars>>

\* the backend's stream ends, or raises
StreamEnd ==
    /\ stream.state = "open"
    /\ stream.chunk = <<>>
    /\ stream.pending = <<>>
    /\ stream' = [state |-> IF stream.backend_ok THEN "exhausted" ELSE "raised",
                  source |-> stream.source,
                  pending |-> <<>>,
                  yielded |-> stream.yielded]
    /\ llm_call' = [llm_call EXCEPT !.outcome =
                       IF stream.backend_ok THEN "returned" ELSE "backend_error"]
    /\ UNCHANGED <<sse, providers, http>>
    /\ UNCHANGED <<treeVars, ragVars, chunkVars, navVars, loopVars, textVars>>

-----------------------------------------------------------------------------
(* POST /api/chat (api/chat.py) *)

\* the requests pydantic builds: ChatRequest has the fields message,
\* conversation_id, model and category_filter, and no other attribute
ChatRequests ==
    {[message |-> <<"a">>, conversation_id |-> "none", model |-> m,
      category_filter |-> "none"] : m \in {"llama3.1", "ollama", "openai"}}

\* getattr on a pydantic model: a name that is no field raises AttributeError
HasAttr(request, name) == name \in DOMAIN request

HttpResponse(status, detail, retrievals, generations, model_used) ==
    [status      |-> status,
     detail      |-> detail,
     retrievals  |-> retrievals,
     generations |-> generations,
     model_used  |-> model_used]

\* the handler from the provider check on, lines 36-91, for the name chosen
\* on line 34
ChatWithProvider(provs, wanted, retrieval_ok, backend_ok) ==
    IF ~is_available(provs, wanted) /\ get_available_providers(provs) = <<>>
    THEN HttpResponse(503, "No LLM providers available", 0, 0, "none")
    ELSE LET provider_to_use ==
                 IF is_available(provs, wanted)
                 THEN wanted
                 ELSE get_available_providers(provs)[1]
         IN  IF ~retrieval_ok
             THEN HttpResponse(500, "Chat failed", 1, 0, "none")
             ELSE LET g == generate(provs, provider_to_use, backend_ok)
                  IN  IF g.outcome = "returned"
                      THEN HttpResponse(200, "ok", 1, 1, g.invoked[1])
                      ELSE HttpResponse(500, "Chat failed", 1,
                                        Len(g.invoked), "none")

\* chat(request), lines 26-91.  Line 34 reads request.provider before
\* request.model; the AttributeError of a missing attribute is caught by
\* "except Exception" on line 89 and answered with status 500
chat(provs, request, retrieval_ok, backend_ok) ==
    IF ~HasAttr(request, "provider")
    THEN HttpResponse(500, "Chat failed", 0, 0, "none")
    ELSE ChatWithProvider(
             provs,
             IF request.provider # "none" THEN request.provider
             ELSE IF request.model # "" THEN request.model
             ELSE "openai",
             retrieval_ok, backend_ok)

Chat(request, retrieval_ok, backend_ok) ==
    /\ http' = chat(providers, request, retrieval_ok, backend_ok)
    /\ UNCHANGED <<sse, providers, llm_call, stream>>
    /\ UNCHANGED <<treeVars, ragVars, chunkVars, navVars, loopVars, textVars>>

-----------------------------------------------------------------------------
(* POST /api/chat/stream (api/chat.py): the generator generate_response *)

\* one "data: ..." event; json is FALSE for the text of line 116, which is
\* written by hand and is no JSON document
SseEvent(type, json) == [type |-> type, json |-> json]

\* lines 149-151, "except Exception as e": the error event is built with
\* json.dumps.  "import json" on line 127 makes json a local name of
\* generate_response; before that line has run the name is unbound, the
\* handler itself raises UnboundLocalError and the generator ends with it
ExceptHandler(events, json_bound) ==
    IF json_bound
    THEN [events |-> Append(events, SseEvent("error", TRUE)),
          unhandled |-> FALSE]
    ELSE [events |-> events, unhandled |-> TRUE]

TextEvents(fragments) ==
    [i \in 1..Len(fragments) |-> SseEvent("text", TRUE)]

\* lines 113-147, for the name chosen on line 110
ChatStreamWithProvider(provs, wanted, retrieval_ok, frags, backend_ok) ==
    IF ~is_available(provs, wanted) /\ get_available_providers(provs) = <<>>
    THEN [events |-> <<SseEvent("error", FALSE)>>, unhandled |-> FALSE]
    ELSE IF ~retrieval_ok
    THEN ExceptHandler(<<>>, FALSE)
    ELSE LET sent == <<SseEvent("citations", TRUE)>>
                     \o TextEvents(TextFragments(frags))
         IN  IF backend_ok
             THEN [events |-> Append(sent, SseEvent("done", TRUE)),
                   unhandled |-> FALSE]
             ELSE ExceptHandler(sent, TRUE)

\* generate_response(), lines 102-151.  Lines 106-107 get the services,
\* line 110 reads request.provider before request.model
chat_stream(provs, request, services_ok, retrieval_ok, frags, backend_ok) ==
    IF ~services_ok \/ ~HasAttr(request, "provider")
    THEN ExceptHandler(<<>>, FALSE)
    ELSE ChatStreamWithProvider(
             provs,
             IF request.provider # "none" THEN request.provider
             ELSE IF request.model # "" THEN request.model
             ELSE "openai",
             retrieval_ok, frags, backend_ok)

ChatStream(request, services_ok, retrieval_ok, frags, backend_ok) ==
    /\ LET out == chat_stream(providers, request, services_ok, retrieval_ok,
                              frags, backend_ok)
       IN  sse' = [op |-> "chat_stream", events |-> out.events,
                   unhandled |-> out.unhandled]
    /\ UNCHANGED <<providers, llm_call, stream, http>>
    /\ UNCHANGED <<treeVars, ragVars, chunkVars, navVars, loopVars, textVars>>

\* the step of a streaming run at which a collaborator raises, if any
FailurePoints == {"none", "services", "retrieval", "generation"}

InitChat ==
    /\ providers \in ProviderLists
    /\ llm_call = [op |-> "none"]
    /\ stream = [state |-> "none"]
    /\ http = [status |-> 0]
    /\ sse = [op |-> "none"]
    /\ sse = [op |-> "none"]
    /\ TreeIdle
    /\ RagIdle
    /\ ChunkIdle
    /\ NavIdle
    /\ LoopIdle
    /\ TextIdle

NextChat ==
    \/ \E name \in RequestedNames, ok \in BOOLEAN : Generate(name, ok)
    \/ \E name \in RequestedNames, ok \in BOOLEAN,
          frags \in SeqUpTo(RawChunks, MaxFrags) : StreamOpen(name, frags, ok)
    \/ StreamTake
    \/ StreamYield
    \/ StreamEnd
    \/ \E request \in ChatRequests, rok \in BOOLEAN, bok \in BOOLEAN :
          Chat(request, rok, bok)
    \/ \E request \in ChatRequests, fails \in FailurePoints,
          frags \in {<<>>, <<"x", "-", "y">>} :
          ChatStream(request, fails # "services", fails # "retrieval",
                     frags, fails # "generation")

SpecChat == InitChat /\ [][NextChat]_vars

-----------------------------------------------------------------------------
(* The tree cache of the navigation endpoints (api/tree.py) *)

\* most files in the vault
MaxVault == 2

\* most runs of initialize_trees the model follows
MaxInits == 3

\* the files a vault is made of; none of them holds a [[link]], so the tree
\* build_tree returns for a root is that root alone
NavFiles ==
    {[dir |-> "c1", stem |-> <<"N", "a">>],
     [dir |-> "c1", stem |-> <<"n", "a">>],
     [dir |-> "c1", stem |-> <<"M", "a">>],
     [dir |-> "c2", stem |-> <<"N", "a">>],
     [dir |-> "c1", stem |-> <<"N", "b">>],
     [dir |-> "c1", stem |-> <<"b">>]}

\* TreeParser.find_root_notes: the root notes, in vault order
find_root_notes(all_notes) == SelectSeq(all_notes, is_root_note)

IsNotPrefixToken(t) == t \notin {"N", "n"}

\* line 53: title.replace("Notes - ", "").replace("notes - ", "")
BookName(title) == SelectSeq(title, IsNotPrefixToken)

\* line 55: cache_key = f"{category}/{book_name}"
CacheKey(root_note) == <<root_note.category, BookName(root_note.title)>>

\* _parser.build_tree(root_note, notes) for a root without links
NavTree(root_note) == [note |-> root_note, ids |-> {root_note.id}]

\* the loop of lines 45-56 over the first n root notes
RECURSIVE CacheRoots(_, _, _)
CacheRoots(cache, root_notes, n) ==
    IF n = 0 THEN cache
    ELSE DictPut(CacheRoots(cache, root_notes, n - 1),
                 CacheKey(root_notes[n]), NavTree(root_notes[n]))

\* initialize_trees(): the vault is parsed and a tree is built and cached for
\* every root note; entries already in the cache stay
initialize_trees(cache, all_notes) ==
    CacheRoots(cache, find_root_notes(all_notes),
               Len(find_root_notes(all_notes)))

\* "if not _trees_cache": an empty dict is falsy
NeedsInit(cache) == cache = <<>>

\* _all_notes: empty until initialize_trees has parsed the vault
AllNotes == IF init_runs > 0 THEN vault_notes ELSE <<>>

\* the first lines of every read endpoint:
\*     if not _trees_cache: initialize_trees()
EnsureTrees ==
    /\ NeedsInit(trees_cache) => init_runs < MaxInits
    /\ trees_cache' = IF NeedsInit(trees_cache)
                      THEN initialize_trees(trees_cache, vault_notes)
                      ELSE trees_cache
    /\ init_runs' = IF NeedsInit(trees_cache) THEN init_runs + 1 ELSE init_runs
    /\ found_roots' = IF NeedsInit(trees_cache)
                      THEN find_root_notes(vault_notes)
                      ELSE found_roots

NavResponse(op, status) ==
    [op     |-> op,
     status |-> status,
     first  |-> init_runs = 0,
     built  |-> init_runs' # init_runs]

\* GET /api/tree/books
GetAllBooks ==
    /\ EnsureTrees
    /\ nav' = NavResponse("books", 200)
    /\ UNCHANGED vault_notes
    /\ UNCHANGED <<treeVars, ragVars, chatVars, chunkVars, loopVars, textVars>>

\* GET /api/tree/{category}/{book_name}
GetBookTree(category, book_name) ==
    /\ EnsureTrees
    /\ nav' = NavResponse("tree",
                  IF DictHas(trees_cache', <<category, book_name>>)
                  THEN 200 ELSE 404)
    /\ UNCHANGED vault_notes
    /\ UNCHANGED <<treeVars, ragVars, chatVars, chunkVars, loopVars, textVars>>

\* GET /api/tree/navigation/{file_path}
GetNavigationContext(file_path) ==
    /\ EnsureTrees
    /\ nav' = NavResponse("navigation",
                  IF vault_notes = <<>> THEN 500
                  ELSE IF \A i \in 1..Len(vault_notes) :
                             vault_notes[i].file_path # file_path
                  THEN 404
                  ELSE 200)
    /\ UNCHANGED vault_notes
    /\ UNCHANGED <<treeVars, ragVars, chatVars, chunkVars, loopVars, textVars>>

\* POST /api/tree/rebuild: _trees_cache.clear(); initialize_trees()
RebuildTrees ==
    /\ init_runs < MaxInits
    /\ trees_cache' = initialize_trees(<<>>, vault_notes)
    /\ init_runs' = init_runs + 1
    /\ found_roots' = find_root_notes(vault_notes)
    /\ nav' = NavResponse("rebuild", 200)
    /\ UNCHANGED vault_notes
    /\ UNCHANGED <<treeVars, ragVars, chatVars, chunkVars, loopVars, textVars>>

\* the vault holds at most MaxVault different files, in any order
InitNav ==
    /\ \E fs \in SeqUpTo(NavFiles, MaxVault) :
          /\ \A i, j \in 1..Len(fs) : i # j => fs[i] # fs[j]
          /\ vault_notes = [i \in 1..Len(fs) |->
                               ParseNote(fs[i].dir, fs[i].stem, NoteText(<<>>))]
    /\ trees_cache = <<>>
    /\ init_runs = 0
    /\ found_roots = <<>>
    /\ nav = [op |-> "none"]
    /\ TreeIdle
    /\ RagIdle
    /\ ChatIdle
    /\ ChunkIdle
    /\ LoopIdle
    /\ TextIdle

NextNav ==
    \/ GetAllBooks
    \/ \E c \in Cats, b \in {<<"a">>, <<"b">>} : GetBookTree(c, b)
    \/ \E f \in NavFiles : GetNavigationContext(f)
    \/ RebuildTrees

SpecNav == InitNav /\ [][NextNav]_vars

-----------------------------------------------------------------------------
(* The request handlers as coroutines of the server's event loop *)
(* (api/search.py, api/chat.py).  Every handler is an "async def": it runs   *)
(* on the thread of the event loop, which executes one coroutine at a time   *)
(* and picks another one only when the running one awaits or returns.        *)

\* most requests in the process at one time
MaxTasks == 3

\* POST /api/search and POST /api/chat
RequestKinds == {"search", "chat"}

NewTask(kind) == [kind |-> kind, pc |-> "ready", status |-> 0]

\* the loop can start coroutine u: its thread is idle and u is ready to run
CanRun(u) ==
    /\ u \in 1..Len(tasks)
    /\ running = 0
    /\ tasks[u].pc = "ready"

\* who holds the loop's thread once coroutine t is inside a call made without
\* await (embed_text, vector_db.query): t itself, until the call returns
HolderDuringCall(t) == t

\* a request arrives and its coroutine is scheduled
Arrive(kind) ==
    /\ Len(tasks) < MaxTasks
    /\ tasks' = Append(tasks, NewTask(kind))
    /\ UNCHANGED running
    /\ UNCHANGED <<treeVars, ragVars, chatVars, chunkVars, navVars, textVars>>

\* the loop starts a ready coroutine
Dispatch(u) ==
    /\ CanRun(u)
    /\ running' = u
    /\ tasks' = [tasks EXCEPT ![u].pc = "started"]
    /\ UNCHANGED <<treeVars, ragVars, chatVars, chunkVars, navVars, textVars>>

\* search.py line 32: embedding_service.embed_text(request.query), a plain
\* call of SentenceTransformer.encode
SearchEmbedCall(t) ==
    /\ running = t
    /\ tasks[t].kind = "search"
    /\ tasks[t].pc = "started"
    /\ tasks' = [tasks EXCEPT ![t].pc = "embedding"]
    /\ running' = HolderDuringCall(t)
    /\ UNCHANGED <<treeVars, ragVars, chatVars, chunkVars, navVars, textVars>>

\* embed_text returns, or raises and lines 68-70 answer 500
SearchEmbedReturn(t, ok) ==
    /\ running = t
    /\ tasks[t].pc = "embedding"
    /\ tasks' = [tasks EXCEPT ![t].pc = IF ok THEN "embedded" ELSE "failed",
                              ![t].status = IF ok THEN 0 ELSE 500]
    /\ running' = IF ok THEN t ELSE 0
    /\ UNCHANGED <<treeVars, ragVars, chatVars, chunkVars, navVars, textVars>>

\* search.py lines 35-40: vector_db.query(...), a plain call as well
SearchQueryCall(t) ==
    /\ running = t
    /\ tasks[t].pc = "embedded"
    /\ tasks' = [tasks EXCEPT ![t].pc = "querying"]
    /\ running' = HolderDuringCall(t)
    /\ UNCHANGED <<treeVars, ragVars, chatVars, chunkVars, navVars, textVars>>

\* the query returns and lines 42-66 answer 200, or it raises: 500
SearchQueryReturn(t, ok) ==
    /\ running = t
    /\ tasks[t].pc = "querying"
    /\ tasks' = [tasks EXCEPT ![t].pc = IF ok THEN "done" ELSE "failed",
                              ![t].status = IF ok THEN 200 ELSE 500]
    /\ running' = 0
    /\ UNCHANGED <<treeVars, ragVars, chatVars, chunkVars, navVars, textVars>>

\* chat.py: the handler ends on line 34 (request.provider), before any
\* collaborator is called, and lines 89-91 answer 500
ChatReturn(t, request) ==
    /\ running = t
    /\ tasks[t].kind = "chat"
    /\ tasks[t].pc = "started"
    /\ LET r == chat(providers, request, TRUE, TRUE)
       IN  tasks' = [tasks EXCEPT ![t].pc = IF r.status = 200 THEN "done"
                                           ELSE "failed",
                                  ![t].status = r.status]
    /\ running' = 0
    /\ UNCHANGED <<treeVars, ragVars, chatVars, chunkVars, navVars, textVars>>

InitLoop ==
    /\ tasks = <<>>
    /\ running = 0
    /\ TreeIdle
    /\ RagIdle
    /\ ChatIdle
    /\ ChunkIdle
    /\ NavIdle
    /\ TextIdle

NextLoop ==
    \/ \E kind \in RequestKinds : Arrive(kind)
    \/ \E u \in 1..Len(tasks) : Dispatch(u)
    \/ \E t \in 1..Len(tasks) : SearchEmbedCall(t)
    \/ \E t \in 1..Len(tasks), ok \in BOOLEAN : SearchEmbedReturn(t, ok)
    \/ \E t \in 1..Len(tasks) : SearchQueryCall(t)
    \/ \E t \in 1..Len(tasks), ok \in BOOLEAN : SearchQueryReturn(t, ok)
    \/ \E t \in 1..Len(tasks), request \in ChatRequests : ChatReturn(t, request)

SpecLoop == InitLoop /\ [][NextLoop]_vars

-----------------------------------------------------------------------------
(* ChunkingService (services/chunking_service.py) *)
(* A text is a sequence of characters: "w" is a letter, "#" a hash mark,     *)
(* " " a blank, "\n" a line break, and "..." the three dots of the overlap   *)
(* separator.                                                               *)

\* longest note content, in characters
MaxChars == 6

\* the characters a note is written with
Chars == {"w", "#", " ", "\n"}

RECURSIVE RunLength(_)
\* number of leading characters of s that are not whitespace
RunLength(s) ==
    IF s = <<>> \/ IsSpace(Head(s)) THEN 0 ELSE 1 + RunLength(Tail(s))

RECURSIVE StrSplit(_)
\* str.split(): the words of s, separated by runs of whitespace
StrSplit(s) ==
    LET t == StrLStrip(s)
    IN  IF t = <<>> THEN <<>>
        ELSE <<SubSeq(t, 1, RunLength(t))>>
             \o StrSplit(SubSeq(t, RunLength(t) + 1, Len(t)))

\* len(text.split())
StrWordCount(s) == Len(StrSplit(s))

RECURSIVE StrJoin(_, _)
\* sep.join(parts)
StrJoin(parts, sep) ==
    IF parts = <<>> THEN <<>>
    ELSE IF Len(parts) = 1 THEN parts[1]
    ELSE parts[1] \o sep \o StrJoin(Tail(parts), sep)

RECURSIVE StrSplitLines(_)
\* content.split('\n')
StrSplitLines(s) ==
    IF \A i \in 1..Len(s) : s[i] # "\n" THEN <<s>>
    ELSE LET i == CHOOSE k \in 1..Len(s) :
                     /\ s[k] = "\n"
                     /\ \A j \in 1..(k - 1) : s[j] # "\n"
         IN  <<SubSeq(s, 1, i - 1)>> \o StrSplitLines(SubSeq(s, i + 1, Len(s)))

RECURSIVE NewlineRun(_)
\* number of leading line breaks of s
NewlineRun(s) ==
    IF s = <<>> \/ Head(s) # "\n" THEN 0 ELSE 1 + NewlineRun(Tail(s))

RECURSIVE ReSplitParagraphs(_)
\* re.split(r'\n\n+', content): cut at every maximal run of two or more
\* line breaks
ReSplitParagraphs(s) ==
    IF \A i \in 1..(Len(s) - 1) : ~(s[i] = "\n" /\ s[i + 1] = "\n") THEN <<s>>
    ELSE LET i == CHOOSE k \in 1..(Len(s) - 1) :
                     /\ s[k] = "\n" /\ s[k + 1] = "\n"
                     /\ \A j \in 1..(k - 1) : ~(s[j] = "\n" /\ s[j + 1] = "\n")
             n == NewlineRun(SubSeq(s, i, Len(s)))
         IN  <<SubSeq(s, 1, i - 1)>>
             \o ReSplitParagraphs(SubSeq(s, i + n, Len(s)))

\* header_pattern allows one to six hash marks
HeaderMaxHashes == 6

RECURSIVE HashRun(_)
\* number of leading hash marks of a line
HashRun(line) ==
    IF line = <<>> \/ Head(line) # "#" THEN 0 ELSE 1 + HashRun(Tail(line))

\* re.match(r'^#{1,6}\s+.+$', line): one to six hash marks, whitespace, and
\* at least one more character
IsHeader(line) ==
    LET k == HashRun(line)
    IN  /\ k >= 1
        /\ k <= HeaderMaxHashes
        /\ Len(line) >= k + 2
        /\ IsSpace(line[k + 1])

\* int(tokens / 1.3) of __init__, lines 37-39
TokensToWords(tokens) == (tokens * 10) \div 13

\* ChunkingService(chunk_size, chunk_overlap, min_chunk_size)
ChunkingService(chunk_size, chunk_overlap, min_chunk_size) ==
    [words_per_chunk |-> TokensToWords(chunk_size),
     overlap_words   |-> TokensToWords(chunk_overlap),
     min_words       |-> TokensToWords(min_chunk_size)]

\* lines 143-144 and 150-151: the section collected so far is closed
CloseSection(sections, current_section) ==
    IF current_section # <<>>
    THEN Append(sections, StrStrip(StrJoin(current_section, <<"\n">>)))
    ELSE sections

RECURSIVE HeaderLoop(_, _, _, _)
\* the loop of lines 140-151 from line i on
HeaderLoop(lines, i, sections, current_section) ==
    IF i > Len(lines) THEN CloseSection(sections, current_section)
    ELSE IF IsHeader(lines[i])
    THEN HeaderLoop(lines, i + 1, CloseSection(sections, current_section),
                    <<lines[i]>>)
    ELSE HeaderLoop(lines, i + 1, sections, Append(current_section, lines[i]))

\* _split_by_headers(content)
split_by_headers(content) ==
    LET sections == HeaderLoop(StrSplitLines(content), 1, <<>>, <<>>)
    IN  IF Len(sections) <= 1 THEN <<content>> ELSE sections

\* lines 185-186: the running group is emitted when the next paragraph
\* does not fit
SaveGroup(chunks, current_chunk) ==
    IF current_chunk # <<>>
    THEN Append(chunks, StrJoin(current_chunk, <<"\n", "\n">>))
    ELSE chunks

\* lines 193-197: the last group is emitted if it has min_words words
SaveLastGroup(chunks, current_chunk, cfg) ==
    IF current_chunk # <<>>
       /\ StrWordCount(StrJoin(current_chunk, <<"\n", "\n">>)) >= cfg.min_words
    THEN Append(chunks, StrJoin(current_chunk, <<"\n", "\n">>))
    ELSE chunks

RECURSIVE ParagraphLoop(_, _, _, _, _, _)
\* the loop of lines 176-197 from paragraph i on
ParagraphLoop(paragraphs, i, chunks, current_chunk, current_words, cfg) ==
    IF i > Len(paragraphs) THEN SaveLastGroup(chunks, current_chunk, cfg)
    ELSE LET para == StrStrip(paragraphs[i])
             para_words == StrWordCount(para)
         IN  IF para = <<>>
             THEN ParagraphLoop(paragraphs, i + 1, chunks, current_chunk,
                                current_words, cfg)
             ELSE IF current_words + para_words > cfg.words_per_chunk
             THEN ParagraphLoop(paragraphs, i + 1,
                                SaveGroup(chunks, current_chunk),
                                <<para>>, para_words, cfg)
             ELSE ParagraphLoop(paragraphs, i + 1, chunks,
                                Append(current_chunk, para),
                                current_words + para_words, cfg)

\* _split_by_paragraphs(content)
split_by_paragraphs(content, cfg) ==
    LET chunks == ParagraphLoop(ReSplitParagraphs(content), 1, <<>>, <<>>, 0, cfg)
    IN  IF chunks # <<>> THEN chunks ELSE <<content>>

\* lines 115-124: the candidate chunks of one section
SectionChunks(section, cfg) ==
    IF StrWordCount(section) <= cfg.words_per_chunk
    THEN IF StrWordCount(section) >= cfg.min_words THEN <<section>> ELSE <<>>
    ELSE split_by_paragraphs(section, cfg)

RECURSIVE SectionLoop(_, _, _)
\* the loop of lines 114-124 over the first n sections
SectionLoop(sections, n, cfg) ==
    IF n = 0 THEN <<>>
    ELSE SectionLoop(sections, n - 1, cfg) \o SectionChunks(sections[n], cfg)

\* the list "chunks" of _semantic_chunk before the overlap pass, lines 109-124
CandidateChunks(content, cfg) ==
    SectionLoop(split_by_headers(content), Len(split_by_headers(content)), cfg)

\* prev_words[-overlap_words:], a Python slice: -0 is 0, the whole list
SliceLast(prev_words, overlap_words) ==
    IF overlap_words = 0 \/ overlap_words >= Len(prev_words)
    THEN prev_words
    ELSE SubSeq(prev_words, Len(prev_words) - overlap_words + 1, Len(prev_words))

\* an overlap test that asks for one word more
TakesOverlapOneMore(prev_words, overlap_words) ==
    Len(prev_words) > overlap_words + 1

\* line 225: if len(prev_words) > self.overlap_words
TakesOverlap(prev_words, overlap_words) == Len(prev_words) > overlap_words

\* lines 222-230: chunk i > 0 with the lead-in of its predecessor
OverlappedChunk(prev_chunk, chunk, cfg) ==
    LET prev_words == StrSplit(prev_chunk)
    IN  IF TakesOverlap(prev_words, cfg.overlap_words)
        THEN StrJoin(SliceLast(prev_words, cfg.overlap_words), <<" ">>)
             \o <<" ", "...", " ">> \o chunk
        ELSE chunk

\* _add_overlap(chunks)
add_overlap(chunks_text, cfg) ==
    IF Len(chunks_text) <= 1 THEN chunks_text
    ELSE [i \in 1..Len(chunks_text) |->
             IF i = 1 THEN chunks_text[1]
             ELSE OverlappedChunk(chunks_text[i - 1], chunks_text[i], cfg)]

\* _semantic_chunk(content)
semantic_chunk(content, cfg) == add_overlap(CandidateChunks(content, cfg), cfg)

\* a _create_chunk that numbers the chunks from one
create_chunk_from_one(parent, text, index, total) ==
    [id           |-> <<parent.id, "_chunk_", index + 1>>,
     note_id      |-> parent.id,
     text         |-> StrStrip(text),
     chunk_index  |-> index + 1,
     total_chunks |-> total]

\* _create_chunk(note, text, index, total)
create_chunk(parent, text, index, total) ==
    [id           |-> <<parent.id, "_chunk_", index>>,
     note_id      |-> parent.id,
     text         |-> StrStrip(text),
     chunk_index  |-> index,
     total_chunks |-> total]

\* a short-note test that sends a note of exactly the target size on
IsShortStrict(word_count, cfg) == word_count < cfg.words_per_chunk

\* line 55: if word_count <= self.words_per_chunk
IsShort(word_count, cfg) == word_count <= cfg.words_per_chunk

\* chunk_note(note)
chunk_note(parent, cfg) ==
    LET content == StrStrip(parent.content)
    IN  IF IsShort(StrWordCount(content), cfg)
        THEN <<create_chunk(parent, content, 0, 1)>>
        ELSE LET chunks_text == semantic_chunk(content, cfg)
             IN  [i \in 1..Len(chunks_text) |->
                     create_chunk(parent, chunks_text[i], i - 1,
                                  Len(chunks_text))]

\* chunker.chunk_note(note)
ChunkNote ==
    /\ cpc = "idle"
    /\ note_chunks' = chunk_note(cnote, chunker)
    /\ LET content == StrStrip(cnote.content)
       IN  IF IsShort(StrWordCount(content), chunker)
           THEN /\ cpc' = "single"
                /\ candidates' = <<>>
           ELSE /\ cpc' = "semantic"
                /\ candidates' = CandidateChunks(content, chunker)
    /\ UNCHANGED <<cnote, chunker>>
    /\ UNCHANGED <<treeVars, ragVars, chatVars, navVars, loopVars, textVars>>

\* the services the notes are chunked with: chunk_size, chunk_overlap and
\* min_chunk_size in tokens
ChunkSizes == {2, 3}

ChunkOverlaps == {0, 2}

MinChunkSizes == {2, 3}

\* a note of at most MaxChars characters and a service
InitChunk ==
    /\ \E content \in SeqUpTo(Chars, MaxChars) :
          cnote = [id |-> <<"c1", "a">>, content |-> content]
    /\ \E cs \in ChunkSizes, co \in ChunkOverlaps, ms \in MinChunkSizes :
          chunker = ChunkingService(cs, co, ms)
    /\ candidates = <<>>
    /\ note_chunks = <<>>
    /\ cpc = "idle"
    /\ TreeIdle
    /\ RagIdle
    /\ ChatIdle
    /\ NavIdle
    /\ LoopIdle
    /\ TextIdle

NextChunk == ChunkNote

SpecChunk == InitChunk /\ [][NextChunk]_vars

-----------------------------------------------------------------------------
(* RAGEngine.parse_citations (services/rag_engine.py) *)
(* An answer is a sequence of tokens: "[Source:" is that literal, "]" the    *)
(* closing bracket, " " a blank and "a" a letter.                           *)

\* most pieces an answer is put together from
MaxPieces == 3

\* the pieces of an answer: plain text, citations of the labels "a" and
\* "aa" with and without blanks around the label, and broken citations
AnswerPieces ==
    {<<"a">>,
     <<" ">>,
     <<"]">>,
     <<"[Source:", "a", "]">>,
     <<"[Source:", " ", "a", "]">>,
     <<"[Source:", "a", "a", "]">>,
     <<"[Source:", " ", "a", " ", "]">>,
     <<"[Source:", " ", "]">>,
     <<"[Source:", "]">>,
     <<"[Source:", "a">>}

RECURSIVE Concat(_, _)
Concat(pieces, n) ==
    IF n = 0 THEN <<>> ELSE Concat(pieces, n - 1) \o pieces[n]

Answers ==
    {Concat(ps, Len(ps)) : ps \in SeqUpTo(AnswerPieces, MaxPieces)}

\* length of the run of tokens at the head of s that are not "]"
RECURSIVE LabelRun(_)
LabelRun(s) ==
    IF s = <<>> \/ Head(s) = "]" THEN 0 ELSE 1 + LabelRun(Tail(s))

\* length of the run of blanks at the head of s
RECURSIVE BlankRun(_)
BlankRun(s) ==
    IF s = <<>> \/ Head(s) # " " THEN 0 ELSE 1 + BlankRun(Tail(s))

\* the pattern \[Source:\s*([^\]]+)\] tried at the head of s: \s* takes the
\* blanks, gives the last one back when nothing else is left for the group,
\* and the group takes every token up to the next "]"
SourceMatchAt(s) ==
    IF s = <<>> \/ Head(s) # "[Source:" THEN [ok |-> FALSE]
    ELSE LET rest   == Tail(s)
             run    == LabelRun(rest)
             blanks == IF BlankRun(rest) = run THEN run - 1 ELSE BlankRun(rest)
         IN  IF run = 0 \/ run = Len(rest) THEN [ok |-> FALSE]
             ELSE [ok    |-> TRUE,
                   group |-> SubSeq(rest, blanks + 1, run),
                   after |-> SubSeq(rest, run + 2, Len(rest))]

\* line 278: re.findall(pattern, response), the groups of the matches found
\* scanning left to right without overlap
RECURSIVE FindAllSources(_)
FindAllSources(s) ==
    IF s = <<>> THEN <<>>
    ELSE IF SourceMatchAt(s).ok
    THEN <<SourceMatchAt(s).group>> \o FindAllSources(SourceMatchAt(s).after)
    ELSE FindAllSources(Tail(s))

\* a slip in the loop: the citation is appended whether seen or not
KeepUniqueAppendsAll(unique, citation) == Append(unique, citation)

\* lines 284-286: "if citation not in seen: seen.add; unique.append"
KeepUnique(unique, citation) ==
    IF \E i \in 1..Len(unique) : unique[i] = citation
    THEN unique
    ELSE Append(unique, citation)

\* lines 281-286: the loop over the first n citations
RECURSIVE UniqueLoop(_, _)
UniqueLoop(found, n) ==
    IF n = 0 THEN <<>>
    ELSE KeepUnique(UniqueLoop(found, n - 1), found[n])

parse_citations(text) ==
    UniqueLoop(FindAllSources(text), Len(FindAllSources(text)))

ParseCitations ==
    /\ tpc = "idle"
    /\ unique_citations' = parse_citations(response)
    /\ tpc' = "parsed"
    /\ UNCHANGED <<response, markdown, tree_links, note_links>>
    /\ UNCHANGED <<treeVars, ragVars, chatVars, chunkVars, navVars, loopVars>>

InitCite ==
    /\ response \in Answers
    /\ unique_citations = <<>>
    /\ markdown = <<>>
    /\ tree_links = <<>>
    /\ note_links = <<>>
    /\ tpc = "idle"
    /\ TreeIdle
    /\ RagIdle
    /\ ChatIdle
    /\ ChunkIdle
    /\ NavIdle
    /\ LoopIdle

NextCite == ParseCitations

SpecCite == InitCite /\ [][NextCite]_vars

-----------------------------------------------------------------------------
(* The two wiki-link extractors: TreeParser.extract_wiki_links, which the    *)
(* tree builder calls, and ObsidianParser._extract_links, which fills        *)
(* note.links.  A text is a sequence of characters.                          *)

\* most pieces a text is put together from
MaxMarkers == 3

\* the pieces of a text: plain characters, markers with and without a
\* display part or blanks, and broken markers
MarkupPieces ==
    {<<"a">>,
     <<" ">>,
     <<"[", "[", "a", "]", "]">>,
     <<"[", "[", "b", "]", "]">>,
     <<"[", "[", " ", "a", " ", "]", "]">>,
     <<"[", "[", "a", "|", "b", "]", "]">>,
     <<"[", "[", "a", "|", "]", "]">>,
     <<"[", "[", "|", "a", "]", "]">>,
     <<"[", "[", "a", "]">>,
     <<"[", "[", "]", "]">>}

Markups ==
    {Concat(ps, Len(ps)) : ps \in SeqUpTo(MarkupPieces, MaxMarkers)}

\* obsidian_parser.py line 166, \[\[([^\]|]+)(?:\|[^\]]+)?\]\], tried at the head
\* of s: the group stops at "|" or "]", an optional "|display" follows
ObsidianLinkMatchAt(s) ==
    IF Len(s) < 2 \/ s[1] # "[" \/ s[2] # "[" THEN [ok |-> FALSE]
    ELSE LET rest    == SubSeq(s, 3, Len(s))
             run     == RunOutside(rest, {"]", "|"})
             tail    == SubSeq(rest, run + 1, Len(rest))
             display == IF tail # <<>> /\ Head(tail) = "|"
                        THEN 1 + RunOutside(Tail(tail), {"]"})
                        ELSE 0
             close   == SubSeq(tail, display + 1, Len(tail))
         IN  IF run = 0 \/ display = 1 \/ Len(close) < 2 \/ close[2] # "]"
             THEN [ok |-> FALSE]
             ELSE [ok    |-> TRUE,
                   group |-> SubSeq(rest, 1, run),
                   after |-> SubSeq(close, 3, Len(close))]

\* line 167: re.findall(pattern, content)
RECURSIVE FindAllObsidianLinks(_)
FindAllObsidianLinks(s) ==
    IF s = <<>> THEN <<>>
    ELSE IF ObsidianLinkMatchAt(s).ok
    THEN <<ObsidianLinkMatchAt(s).group>>
         \o FindAllObsidianLinks(ObsidianLinkMatchAt(s).after)
    ELSE FindAllObsidianLinks(Tail(s))

\* ObsidianParser._extract_links(content): the same "seen" loop as
\* parse_citations, lines 170-175
extract_links(content) ==
    UniqueLoop(FindAllObsidianLinks(content), Len(FindAllObsidianLinks(content)))

\* parse_note fills note.links (obsidian_parser.py line 98) and, when the
\* tree is built, _build_tree_recursive extracts the references of the same
\* text again (tree_parser.py line 183)
ExtractLinks ==
    /\ tpc = "idle"
    /\ note_links' = extract_links(markdown)
    /\ tree_links' = extract_wiki_links(markdown)
    /\ tpc' = "extracted"
    /\ UNCHANGED <<response, unique_citations, markdown>>
    /\ UNCHANGED <<treeVars, ragVars, chatVars, chunkVars, navVars, loopVars>>

InitLinks ==
    /\ markdown \in Markups
    /\ response = <<>>
    /\ unique_citations = <<>>
    /\ tree_links = <<>>
    /\ note_links = <<>>
    /\ tpc = "idle"
    /\ TreeIdle
    /\ RagIdle
    /\ ChatIdle
    /\ ChunkIdle
    /\ NavIdle
    /\ LoopIdle

NextLinks == ExtractLinks

SpecLinks == InitLinks /\ [][NextLinks]_vars

-----------------------------------------------------------------------------
(* Properties of build_tree *)

NodeId(i) == notes[nodes[i].note].id

\* the node indices on the path from node i up to the root, i included
RECURSIVE PathToRoot(_)
PathToRoot(i) ==
    IF nodes[i].parent = 0 THEN {i} ELSE {i} \cup PathToRoot(nodes[i].parent)

\* node i holds a link that resolves to a note whose id is already on the
\* path from i to the root: a self reference or a reference back up the tree
HasBackReference(i) ==
    \E k \in 1..Len(nodes[i].wiki_links) :
        LET t == find_note_by_link_text(nodes[i].wiki_links[k],
                                        notes[nodes[1].note].category)
        IN  t # 0 /\ \E a \in PathToRoot(i) : NodeId(a) = notes[t].id

\* C1: in the tree build_tree builds, whatever the notes link to (each other,
\* themselves, in a cycle), no note id appears at two nodes, so none appears
\* twice on a path from the root to a leaf.
C1_NoIdentityTwice ==
    \A i, j \in 1..Len(nodes) : i # j => NodeId(i) # NodeId(j)

\* a finished tree of three nodes whose deepest node refers back up its path
C1_Witness ==
    /\ pc = "done"
    /\ Len(nodes) = 3
    /\ \E i \in 1..Len(nodes) : nodes[i].depth = 2 /\ HasBackReference(i)

DistinctIds == {notes[n].id : n \in 1..Len(notes)}

\* C2: build_tree terminates on every vault, cyclic and self references
\* included, and its tree never has more nodes than there are distinct ids.
C2_TerminatesWithinIds ==
    /\ [](Len(nodes) <= Cardinality(DistinctIds))
    /\ (pc = "building") ~> (pc = "done")

\* a finished build over a vault in which a note of the tree links to itself
\* and two files share one id
C2_Witness ==
    /\ pc = "done"
    /\ Cardinality(DistinctIds) < Len(notes)
    /\ Len(nodes) = Cardinality(DistinctIds)
    /\ \E i \in 1..Len(nodes) :
          \E k \in 1..Len(nodes[i].wiki_links) :
              find_note_by_link_text(nodes[i].wiki_links[k],
                                     notes[nodes[1].note].category)
                  = nodes[i].note

\* C3: the root has depth 0 and every other node sits one level below its
\* parent, the parent being the one node whose children list holds it.
C3_DepthInvariant ==
    \A i \in 1..Len(nodes) :
        IF i = 1
        THEN nodes[i].depth = 0 /\ nodes[i].parent = 0 /\ nodes[i].is_root
        ELSE /\ nodes[i].parent \in 1..Len(nodes)
             /\ nodes[i].depth = nodes[nodes[i].parent].depth + 1
             /\ \A q \in 1..Len(nodes) :
                   (\E k \in 1..Len(nodes[q].children) :
                        nodes[q].children[k] = i) <=> q = nodes[i].parent

\* a finished tree with a grandchild of the root
C3_Witness ==
    /\ pc = "done"
    /\ \E i \in 1..Len(nodes) : nodes[i].depth = 2 /\ nodes[nodes[i].parent].depth = 1

-----------------------------------------------------------------------------
(* Properties of the retrieval pipeline *)

RECURSIVE SumWords(_, _)
SumWords(chunks, n) ==
    IF n = 0 THEN 0 ELSE SumWords(chunks, n - 1) + Len(chunks[n].text)

Included == Len(context_parts)

\* C4: _assemble_context stops at the first candidate that would push the
\* running word total above int(0.75 x context_limit): the blocks are those of
\* the longest prefix of the ranked list that fits, nothing behind the first
\* overflowing candidate is included, and the included words stay within the
\* threshold.  (x <= int(0.75 L) for an integer x is 4x <= 3L.)
C4_HardStopAtFirstOverflow ==
    rpc = "assembled" =>
        /\ Included <= Len(ranked)
        /\ \A i \in 1..Included : context_parts[i] = FormatBlock(ranked[i])
        /\ 4 * SumWords(ranked, Included) <= 3 * context_limit
        /\ Included < Len(ranked) =>
              4 * (SumWords(ranked, Included)
                   + Len(ranked[Included + 1].text)) > 3 * context_limit

\* the loop stopped at the second candidate although the third would have fitted
C4_Witness ==
    /\ rpc = "assembled"
    /\ Included = 1
    /\ Len(ranked) = 3
    /\ 4 * (SumWords(ranked, 1) + Len(ranked[3].text)) <= 3 * context_limit

\* words of the candidate that made the loop stop, 0 when none did
OverflowWords ==
    IF Included < Len(ranked) THEN Len(ranked[Included + 1].text) ELSE 0

\* tokens of the "[Source: ...]" line of the block cited by c
LabelTokens(c) ==
    1 + Max(1, Len(c.title) + (IF c.book # <<>> THEN Len(c.book) + 1 ELSE 0))

RECURSIVE SumLabelTokens(_, _)
SumLabelTokens(cits, n) ==
    IF n = 0 THEN 0 ELSE SumLabelTokens(cits, n - 1) + LabelTokens(cits[n])

\* C5 as stated: len(context.split()) never exceeds 0.75 x context_limit plus
\* the word count of the candidate that triggered the stop (plus nothing when
\* none did).
C5_ContextTokensWithinBudget ==
    rpc = "assembled" =>
        4 * Len(context) <= 3 * context_limit + 4 * OverflowWords

\* C5 as amended: len(context.split()) never exceeds int(0.75 x context_limit)
\* plus the tokens of the "[Source: ...]" labels of the included blocks plus
\* one "---" token per separator between them; the budget counts the
\* candidates' own words only.
C5_ContextTokensWithinBudgetAndLabels ==
    rpc = "assembled" =>
        4 * (Len(context)
             - SumLabelTokens(citations, Len(citations))
             - Max(0, Len(citations) - 1)) <= 3 * context_limit

\* two blocks were joined and a third candidate was cut off
C5_Witness ==
    /\ rpc = "assembled"
    /\ Len(citations) = 2
    /\ Len(ranked) = 3
    /\ Len(context) > 3 * context_limit

\* number of blocks found in the joined context string
BlocksInContext ==
    Cardinality({i \in 1..Len(context) : context[i] = "[Source:"})

\* C6: as many citations as blocks joined into the context; the i-th citation
\* describes the candidate of the i-th block, in rank order; no candidates
\* give an empty context and an empty citation list.
C6_CitationContextParity ==
    rpc = "assembled" =>
        /\ Len(citations) = Len(context_parts)
        /\ Len(citations) = BlocksInContext
        /\ Len(citations) <= Len(ranked)
        /\ \A i \in 1..Len(citations) :
              /\ citations[i].title = ranked[i].metadata.title
              /\ citations[i].book = ranked[i].metadata.book
              /\ citations[i].file_path = ranked[i].metadata.file_path
              /\ citations[i].snippet = ranked[i].text
              /\ Len(context_parts[i]) =
                    LabelTokens(citations[i]) + Len(citations[i].snippet)
              /\ SubSeq(context_parts[i], LabelTokens(citations[i]) + 1,
                        Len(context_parts[i])) = citations[i].snippet
        /\ results = <<>> => (context = <<>> /\ citations = <<>>)

\* two blocks of the same title were joined, in an order the rerank changed
C6_Witness ==
    /\ rpc = "assembled"
    /\ Len(citations) >= 2
    /\ citations[1].title = citations[2].title
    /\ citations[1].snippet # citations[2].snippet
    /\ ranked[1].id > ranked[2].id

\* outbound_link_count of a hit: unreadable metadata counts as no links
OutboundLinks(hit) ==
    IF hit.metadata.links.kind = "list" THEN hit.metadata.links.n ELSE 0

\* C7: _rerank_results returns every hit exactly once, by non-increasing
\* final score 0.7 x similarity + 0.2 x keyword_overlap
\* + min(0.1, 0.01 x outbound_link_count), equal scores in input order.
C7_RerankStableDescending ==
    rpc \in {"ranked", "assembled", "prompted"} =>
        /\ Len(ranked) = Len(results)
        /\ \A h \in 1..Len(results) :
              /\ Cardinality({i \in 1..Len(ranked) : ranked[i].id = h}) = 1
              /\ \A i \in 1..Len(ranked) :
                    ranked[i].id = h =>
                        /\ ranked[i].text = results[h].text
                        /\ ranked[i].metadata = results[h].metadata
                        /\ LET nq == Cardinality(WordSet(query))
                               hit == Cardinality(WordSet(query)
                                                  \cap WordSet(results[h].text))
                               d == Max(1, nq)
                           IN  ranked[i].final_score =
                                   70 * (100 - results[h].distance) * d
                                   + (IF nq = 0 THEN 0 ELSE 2000 * hit)
                                   + d * Min(1000, 100 * OutboundLinks(results[h]))
        /\ \A i, j \in 1..Len(ranked) :
              i < j =>
                  /\ ranked[i].final_score >= ranked[j].final_score
                  /\ ranked[i].final_score = ranked[j].final_score
                        => ranked[i].id < ranked[j].id

\* a rerank that moved a hit forward and met two hits of equal score
C7_Witness ==
    /\ rpc = "ranked"
    /\ Len(ranked) = 3
    /\ ranked[1].id = 3
    /\ ranked[2].final_score = ranked[3].final_score
    /\ ranked[2].text # ranked[3].text

\* C8: every citation retrieve_context returns carries a relevance score in
\* [0,1] (thousandths: 0..1000), whatever distance in [0,2] the index gave.
C8_RelevanceInUnitInterval ==
    \A i \in 1..Len(citations) :
        /\ citations[i].relevance_score >= 0
        /\ citations[i].relevance_score <= 1000

-----------------------------------------------------------------------------
(* Properties of the generation service and the chat endpoint *)

\* C9 as stated: a call of generate or generate_stream for a backend that is
\* not available invokes no other backend in its place.
C9_NeverServedByAnotherBackend ==
    llm_call.op # "none" =>
        \A i \in 1..Len(llm_call.invoked) :
            llm_call.invoked[i] = llm_call.requested

\* C9 as amended: an available backend is the one invoked; an unavailable
\* name is served by the first registered backend whenever one exists; only
\* with no backend registered is none invoked, and the call fails with
\* "No LLM providers available".
C9_FallbackToFirstAvailable ==
    llm_call.op # "none" =>
        LET avail == {ProviderOrder[i] : i \in
                         {j \in 1..Len(ProviderOrder) :
                             ProviderOrder[j] \in Range(providers)}}
            first == ProviderOrder[CHOOSE i \in 1..Len(ProviderOrder) :
                        /\ ProviderOrder[i] \in avail
                        /\ \A j \in 1..(i - 1) : ProviderOrder[j] \notin avail]
        IN  IF llm_call.requested \in avail
            THEN llm_call.invoked = <<llm_call.requested>>
            ELSE IF avail # {}
            THEN llm_call.invoked = <<first>>
                 /\ llm_call.outcome # "no_providers"
            ELSE llm_call.invoked = <<>>
                 /\ llm_call.outcome = "no_providers"

\* a streamed call for an unregistered name that another backend served
C9_Witness ==
    /\ llm_call.op = "generate_stream"
    /\ llm_call.requested \notin Range(providers)
    /\ Len(providers) = 2
    /\ llm_call.outcome = "returned"
    /\ Len(stream.yielded) = 2

\* C10: with no backend available a chat request ends in status 503, not in
\* the 500 of a failed backend, and neither retrieval nor generation is run.
C10_NotConfiguredIs503 ==
    (http.status # 0 /\ providers = <<>>) =>
        /\ http.status = 503
        /\ http.retrievals = 0
        /\ http.generations = 0

-----------------------------------------------------------------------------
(* Properties of streaming generation *)

IsPrefix(a, b) == Len(a) <= Len(b) /\ a = SubSeq(b, 1, Len(a))

\* the text fragments the backend has handed over so far
StreamTaken ==
    TextFragments(SubSeq(stream.source, 1,
                         Len(stream.source) - Len(stream.pending)))

\* C11: in streaming mode the caller receives the backend's text fragments
\* once each and in arrival order, at most one fragment is held back at any
\* time (a fragment is forwarded before the next is taken), and a stream that
\* ends has forwarded all of them.
C11_ForwardedOnceInOrder ==
    stream.state # "none" =>
        /\ IsPrefix(stream.yielded, StreamTaken)
        /\ Len(StreamTaken) - Len(stream.yielded) <= 1
        /\ stream.state = "exhausted" =>
               stream.yielded = TextFragments(stream.source)

\* the first fragment is with the caller while the backend has yet to send
\* the second
C11_Witness ==
    /\ stream.state = "open"
    /\ stream.yielded = <<"x">>
    /\ stream.pending = <<"y">>

-----------------------------------------------------------------------------
(* Properties of the tree cache *)

\* C12: the tree cache is built once, on first access, and is rebuilt only by
\* the rebuild trigger: a read request that is not the first access never
\* runs initialize_trees, however many root notes the vault has.
C12_ReadsNeverRebuild ==
    (nav.op \in {"books", "tree", "navigation"} /\ ~nav.first) => ~nav.built

-----------------------------------------------------------------------------
(* Properties of the event loop *)

\* C13: while one query waits on the embedding function, another query of
\* the same process that is ready to run can be run: the external call does
\* not hold the thread the other queries need.
C13_SlowCallStallsNobody ==
    \A t, u \in 1..Len(tasks) :
        (t # u /\ tasks[t].pc = "embedding" /\ tasks[u].pc = "ready")
            => CanRun(u)

-----------------------------------------------------------------------------
(* Properties of the query pipeline *)

\* the stages of one query, in the order the claim gives them
Stages == <<"embed", "vector_query", "rerank", "assemble", "prompt", "generate">>

\* C14: within one query the stages run in the order embed, vector query,
\* rerank, assemble, prompt, generate, each at most once (no retry); when the
\* embedding call or the vector query fails, the query ends there: no later
\* stage runs and nothing is ranked, assembled, cited or prompted.
C14_StagesInOrderFailureStops ==
    /\ Len(calls) <= Len(Stages)
    /\ \A i \in 1..Len(calls) : calls[i].stage = Stages[i]
    /\ \A i \in 1..Len(calls) :
          ~calls[i].ok =>
              /\ i = Len(calls)
              /\ rpc = "failed"
              /\ ranked = <<>>
              /\ context_parts = <<>>
              /\ citations = <<>>
              /\ prompt = <<>>

\* the embedding was made, then the vector query failed and the query ended
C14_Witness ==
    /\ rpc = "failed"
    /\ Len(calls) = 2
    /\ calls[1].ok
    /\ ~calls[2].ok

-----------------------------------------------------------------------------
(* Properties of chunk_note *)

\* the note's content as chunk_note trims it
TrimmedContent == StrStrip(cnote.content)

\* C15: a note whose trimmed content has at most words_per_chunk words gives
\* exactly one chunk, with ordinal 0 and total count 1, whose text is the
\* trimmed content, headers included.
C15_ShortNoteIsOneChunk ==
    (cpc # "idle"
     /\ StrWordCount(TrimmedContent) <= chunker.words_per_chunk) =>
        /\ Len(note_chunks) = 1
        /\ note_chunks[1].chunk_index = 0
        /\ note_chunks[1].total_chunks = 1
        /\ note_chunks[1].text = TrimmedContent

\* a note of one header line between whitespace, as long as the target size:
\* its one chunk is the header line
C15_Witness ==
    /\ cpc = "single"
    /\ cnote.content = <<" ", "#", " ", "w", "\n">>
    /\ chunker.words_per_chunk = 2
    /\ note_chunks[1].text = <<"#", " ", "w">>

\* C16: a note whose content is empty or whitespace only gives no chunk.
C16_EmptyNoteGivesNoChunk ==
    (cpc # "idle" /\ TrimmedContent = <<>>) => note_chunks = <<>>

\* C17: the N > 0 chunks of a note carry the ordinals 0..N-1 in list order,
\* the total count N, and the identity "{note id}_chunk_{ordinal}".
C17_OrdinalsContiguous ==
    cpc # "idle" =>
        \A i \in 1..Len(note_chunks) :
            /\ note_chunks[i].chunk_index = i - 1
            /\ note_chunks[i].total_chunks = Len(note_chunks)
            /\ note_chunks[i].id = <<cnote.id, "_chunk_", i - 1>>
            /\ note_chunks[i].note_id = cnote.id

\* a note split into two chunks, numbered 0 and 1
C17_Witness ==
    /\ cpc = "semantic"
    /\ Len(note_chunks) = 2
    /\ note_chunks[2].chunk_index = 1

\* C18: for a note longer than the target size, every chunk has, before the
\* overlap pass, at least min_words words, whether the header split or the
\* paragraph split made it.
C18_NoChunkBelowMinimum ==
    cpc = "semantic" =>
        \A i \in 1..Len(candidates) :
            StrWordCount(candidates[i]) >= chunker.min_words

\* C19: every candidate chunk, before the overlap pass, has at most
\* words_per_chunk words.
C19_NoChunkAboveTarget ==
    cpc = "semantic" =>
        \A i \in 1..Len(candidates) :
            StrWordCount(candidates[i]) <= chunker.words_per_chunk

\* C20: when a note gives more than one chunk, chunk 0 is the first candidate
\* unchanged, and every later chunk whose predecessor has, before the overlap
\* pass, more words than overlap_words contains the separator " ... ".
C20_OverlapSeparatorPresent ==
    (cpc = "semantic" /\ Len(note_chunks) > 1) =>
        /\ Len(note_chunks) = Len(candidates)
        /\ note_chunks[1].text = candidates[1]
        /\ \A i \in 2..Len(note_chunks) :
              StrWordCount(candidates[i - 1]) > chunker.overlap_words
                  => Contains(note_chunks[i].text, <<" ", "...", " ">>)

\* two chunks, the first of two words, with an overlap of one word: the
\* second chunk starts with the last word of the first and the separator
C20_Witness ==
    /\ cpc = "semantic"
    /\ chunker.overlap_words = 1
    /\ Len(note_chunks) = 2
    /\ StrWordCount(candidates[1]) = 2
    /\ note_chunks[2].text = <<"w", " ", "...", " ", "w">>

-----------------------------------------------------------------------------
(* Properties of find_note_by_link_text *)

\* the documents each strategy accepts for a reference text and a category
ExactTitleMatches(text) ==
    {n \in 1..Len(notes) : notes[n].title = text}

TitleMatches(text, category) ==
    {n \in 1..Len(notes) : /\ notes[n].category = category
                           /\ Lower(notes[n].title) = Lower(text)}

ContainingTitles(text, category) ==
    {n \in 1..Len(notes) : /\ notes[n].category = category
                           /\ Contains(Lower(notes[n].title), Lower(text))}

StemMatches(text, category) ==
    {n \in 1..Len(notes) : /\ notes[n].category = category
                           /\ Lower(notes[n].file_path.stem) = Lower(text)}

\* the strategy whose turn it is: the first one that accepts a document
WinningMatches(text, category) ==
    IF ExactTitleMatches(text) # {} THEN ExactTitleMatches(text)
    ELSE IF TitleMatches(text, category) # {} THEN TitleMatches(text, category)
    ELSE IF ContainingTitles(text, category) # {}
    THEN ContainingTitles(text, category)
    ELSE StemMatches(text, category)

ResolvesInOrder(text, category) ==
    LET r == find_note_by_link_text(text, category)
    IN  /\ WinningMatches(text, category) = {} <=> r = 0
        /\ r # 0 => r \in WinningMatches(text, category)
        /\ (r # 0 /\ ExactTitleMatches(text) = {})
              => notes[r].category = category

-----------------------------------------------------------------------------
(* Properties of TreeParser.get_navigation_context *)

\* the node of the built tree that holds document n, 0 when none does
NodeOfNote(n) ==
    IF \E i \in 1..Len(nodes) : nodes[i].note = n
    THEN CHOOSE i \in 1..Len(nodes) : nodes[i].note = n
    ELSE 0

\* the parent's children other than node t, as entries, in list order
OtherChildren(t) ==
    IF nodes[t].parent = 0 THEN <<>>
    ELSE LET NotT(c) == c # t
         IN  NodeEntries(SelectSeq(nodes[nodes[t].parent].children, NotT))

\* C22: for a document that is a node of the built tree, the breadcrumbs
\* are the path from the root to that document: depth + 1 entries, the root
\* first, the document last, each entry the parent of the next one; the
\* siblings are the parent's other children and the document is not one of
\* them.
C22_BreadcrumbsAreRootPath ==
    (navigation.op = "context" /\ NodeOfNote(navigation.note) # 0) =>
        LET t  == NodeOfNote(navigation.note)
            bc == navigation.context.breadcrumbs
        IN  /\ Len(bc) = nodes[t].depth + 1
            /\ bc[1] = NodeEntry(1)
            /\ bc[Len(bc)] = NodeEntry(t)
            /\ \A k \in 1..(Len(bc) - 1) :
                   \E c \in 1..Len(nodes) :
                       /\ nodes[c].parent # 0
                       /\ bc[k + 1] = NodeEntry(c)
                       /\ bc[k] = NodeEntry(nodes[c].parent)
            /\ navigation.context.siblings = OtherChildren(t)
            /\ \A k \in 1..Len(navigation.context.siblings) :
                   navigation.context.siblings[k] # NodeEntry(t)

\* the context of the second of two children of the root was asked
C22_Witness ==
    /\ navigation.op = "context"
    /\ NodeOfNote(navigation.note) # 0
    /\ nodes[1].children = <<2, 3>>
    /\ NodeOfNote(navigation.note) = 3
    /\ Len(navigation.context.breadcrumbs) = 2
    /\ navigation.context.siblings = <<NodeEntry(2)>>

-----------------------------------------------------------------------------
(* Properties of parse_citations *)

\* position of the first occurrence of x in seq
FirstIndex(seq, x) ==
    CHOOSE i \in 1..Len(seq) : seq[i] = x /\ \A j \in 1..(i - 1) : seq[j] # x

\* C23: parse_citations returns every distinct label of a [Source: X]
\* occurrence exactly once, in the order of the first occurrences; the list
\* has no duplicates and deduplicating it again changes nothing.
C23_CitationsUniqueInOrder ==
    tpc = "parsed" =>
        LET found == FindAllSources(response)
            out   == unique_citations
        IN  /\ {out[i] : i \in 1..Len(out)} = {found[i] : i \in 1..Len(found)}
            /\ \A i, j \in 1..Len(out) : i # j => out[i] # out[j]
            /\ \A i, j \in 1..Len(out) :
                   i < j => FirstIndex(found, out[i]) < FirstIndex(found, out[j])
            /\ UniqueLoop(out, Len(out)) = out

\* the answer cites "a" twice and then "aa": the result is <<"a", "aa">>
C23_Witness ==
    /\ tpc = "parsed"
    /\ response = <<"[Source:", " ", "a", "]", "[Source:", " ", "a", "]",
                    "[Source:", "a", "a", "]">>
    /\ unique_citations = <<<<"a">>, <<"a", "a">>>>

-----------------------------------------------------------------------------
(* Properties of the overlap pass *)

\* the words in front of the separator of an overlapped chunk
LeadInWords(text) ==
    LET at == CHOOSE i \in 1..Len(text) : text[i] = "..."
    IN  StrSplit(SubSeq(text, 1, at - 1))

\* the last k words of a list that has more than k words
LastWords(words, k) == SubSeq(words, Len(words) - k + 1, Len(words))

\* C24: in every chunk after the first, the words in front of the " ... "
\* separator are exactly the last overlap_words words of the preceding
\* candidate, whatever the overlap size; the first chunk is its candidate.
C24_LeadInIsLastOverlapWords ==
    (cpc = "semantic" /\ Len(note_chunks) > 1) =>
        /\ note_chunks[1].text = candidates[1]
        /\ \A i \in 2..Len(note_chunks) :
              Contains(note_chunks[i].text, <<" ", "...", " ">>) =>
                  LeadInWords(note_chunks[i].text)
                      = LastWords(StrSplit(candidates[i - 1]),
                                  chunker.overlap_words)

-----------------------------------------------------------------------------
(* Properties of the leaf mark *)

\* no reference of node i resolves to a document
NoReferenceResolves(i) ==
    \A k \in 1..Len(nodes[i].wiki_links) :
        find_note_by_link_text(nodes[i].wiki_links[k],
                               notes[nodes[1].note].category) = 0

\* C25: in a finished tree, every node none of whose references resolved to
\* a document (it has no reference, or all of them are unresolvable) is
\* marked is_leaf.
C25_UnresolvedOnlyIsLeaf ==
    pc = "done" =>
        \A i \in 1..Len(nodes) : NoReferenceResolves(i) => nodes[i].is_leaf

-----------------------------------------------------------------------------
(* Properties of the reference extraction *)

\* C26: the references the tree builder extracts are the Text parts only,
\* so none of them holds a "|", and each of them is listed once.
C26_TreeLinksAreTextOnlyOnce ==
    tpc = "extracted" =>
        /\ \A i \in 1..Len(tree_links) : ~Contains(tree_links[i], <<"|">>)
        /\ \A i, j \in 1..Len(tree_links) :
               i # j => tree_links[i] # tree_links[j]

-----------------------------------------------------------------------------
(* Properties of the root detection *)

\* the file name begins with "Notes - " in some casing
HasNotesPrefix(note) ==
    /\ Len(note.file_path.stem) > 0
    /\ LowerTok(note.file_path.stem[1]) = "n"

\* C27: the documents initialize_trees takes for roots are exactly those
\* whose file name begins with "Notes - " in any casing.
C27_RootIffPrefixAnyCase ==
    init_runs > 0 =>
        \A i \in 1..Len(vault_notes) :
            HasNotesPrefix(vault_notes[i])
                <=> \E k \in 1..Len(found_roots) :
                        found_roots[k] = vault_notes[i]

-----------------------------------------------------------------------------
(* Properties of the cache keys *)

\* C30: after initialize_trees the cache holds one entry for each root
\* document: no two roots have the same cache key and there are as many
\* cached trees as roots (build_tree raises for none of these vaults).
C30_OneCacheEntryPerRoot ==
    init_runs > 0 =>
        /\ \A i, j \in 1..Len(found_roots) :
               i # j => CacheKey(found_roots[i]) # CacheKey(found_roots[j])
        /\ Len(trees_cache) = Len(found_roots)

-----------------------------------------------------------------------------
(* Properties of construct_prompt *)

\* the label a history message is rendered with
RoleLabel(role) == IF role = "user" THEN "User" ELSE "Assistant"

\* how many messages of the history the prompt shows
Shown == IF Len(history) < HistoryWindow THEN Len(history) ELSE HistoryWindow

\* the last lines of every prompt: the current question
QuestionSection ==
    <<PromptLine("header", <<"=== CURRENT QUESTION ===">>),
      PromptLine("User", query),
      PromptLine("blank", <<>>),
      PromptLine("instruction", <<>>),
      PromptLine("blank", <<>>),
      PromptLine("Assistant", <<>>)>>

HistoryHeader == PromptLine("header", <<"=== CONVERSATION HISTORY ===">>)

\* C28: the prompt is the system preamble, the context, the history when
\* there is one, and the current question, in that order; the history
\* section shows the last min(6, len(history)) messages in their order,
\* "User: ..." for the role user and "Assistant: ..." for any other, and
\* its header is absent when the history is empty.
C28_PromptSectionsAndHistoryWindow ==
    rpc = "prompted" =>
        /\ SubSeq(prompt, 1, 6)
               = <<PromptLine("header", <<"=== SYSTEM ===">>),
                   PromptLine("system_prompt", <<>>),
                   PromptLine("blank", <<>>),
                   PromptLine("header", <<"=== RELEVANT KNOWLEDGE ===">>),
                   PromptLine("context", context),
                   PromptLine("blank", <<>>)>>
        /\ IF history = <<>>
           THEN /\ SubSeq(prompt, 7, Len(prompt)) = QuestionSection
                /\ \A i \in 1..Len(prompt) : prompt[i] # HistoryHeader
           ELSE /\ Len(prompt) = 14 + Shown
                /\ prompt[7] = HistoryHeader
                /\ \A i \in 1..Shown :
                       prompt[7 + i]
                           = PromptLine(
                                 RoleLabel(history[Len(history) - Shown + i].role),
                                 history[Len(history) - Shown + i].content)
                /\ prompt[8 + Shown] = PromptLine("blank", <<>>)
                /\ SubSeq(prompt, 9 + Shown, Len(prompt)) = QuestionSection

\* a history of seven messages, the last of them of role system: the prompt
\* shows messages two to seven
C28_Witness ==
    /\ rpc = "prompted"
    /\ Len(history) = 7
    /\ history[7].role = "system"
    /\ prompt[8] = PromptLine(RoleLabel(history[2].role), <<"m2">>)
    /\ prompt[13] = PromptLine("Assistant", <<"m7">>)

-----------------------------------------------------------------------------
(* Properties of the streaming chat endpoint *)

IsTerminal(event) == event.type \in {"done", "error"}

\* C29: every run of the streaming endpoint sends a well-formed sequence of
\* events and never ends with an unhandled exception: at most one citations
\* event, in front of every text event, and exactly one terminal event,
\* "done" or an error, which is the last event.
C29_StreamEndsWithOneTerminalEvent ==
    sse.op = "chat_stream" =>
        LET ev == sse.events
        IN  /\ ~sse.unhandled
            /\ Len(ev) > 0
            /\ IsTerminal(ev[Len(ev)])
            /\ \A i \in 1..(Len(ev) - 1) : ~IsTerminal(ev[i])
            /\ \A i, j \in 1..Len(ev) :
                   (ev[i].type = "citations" /\ ev[j].type = "citations")
                       => i = j
            /\ \A i, j \in 1..Len(ev) :
                   (ev[i].type = "citations" /\ ev[j].type = "text") => i < j

====
